---- MODULE Spec2Model ----
(***************************************************************************)
(* A model of the lookahead SAT solver of sat_lookahead.h                  *)
(* (src/unnamed/part_001): the assignment store, the binary-implication    *)
(* table with its dynamic learner, propagation, the probe driver and the   *)
(* search loop.  Every operation of class lookahead is an operator on a    *)
(* record holding the object's fields; an operation whose code reads       *)
(* outside a vector (undefined behaviour) yields the set of its outcomes.  *)
(***************************************************************************)
EXTENDS Integers, Sequences, FiniteSets, TLC

VARIABLES la, pc, search_trail, search_l, op, steps, rt

vars == <<la, pc, search_trail, search_l, op, steps, rt>>

----------------------------------------------------------------------------
(* Bounds of the model *)

\* number of Boolean variables of the solver (s.num_vars())
NumVars == 3
\* most units on the solver's trail at construction, for check()
MaxUnits == 2
\* most units on the solver's trail at construction, for the call sequences
MaxPlainUnits == 1
\* most binary clauses in the solver's watch lists at construction
MaxBinClauses == 1
\* most non-binary clauses in the solver's clause set at construction
MaxClauses == 1
\* longest sequence of operations called on an instance
MaxOps == 3
\* most pushes of a round trip of pushes and pops
MaxRoundTrip == 2
\* largest small value read from outside a vector (besides UINT_MAX)
MaxGarbage == 1
\* most binary clauses of a formula given to get_scc or to check()
MaxFormulaClauses == 3
\* bits of an unsigned (TLC's integers are too narrow for the 32 of the build)
UnsignedBits == 16
\* largest level of the first branches of init_pre_selection select() is
\* called with
MaxLevel == 2
\* most calls of select() in a row
MaxSelects == 2
\* most passes of the first loop of select() that are followed
MaxSweeps == 3
\* most calls of a run of nested scopes, and most try_add_binary among them
MaxNestOps == 5
MaxNestAdds == 1
\* variables of the instance the cut of select() is run on
ManyVars == 60
\* bits of the significand of a float (24 in the build: a product of two
\* significands has to fit an integer of TLC)
MantissaBits == 14
\* constraints of a local_search instance
NumConstraints == 3
\* most cancel requests sent to one handler
MaxCancels == 3
\* handlers registered for one target object
NumHandlers == 3

----------------------------------------------------------------------------
(* Literals and truth values (sat_types.h and lbool.h are not under src/) *)

\* the largest unsigned
UINT_MAX == 2 ^ UnsignedBits - 1
l_false == -1
l_undef == 0
l_true == 1
null_literal == -1

Vars == 0 .. (NumVars - 1)
Lits == 0 .. (2 * NumVars - 1)

literal(v, sgn) == 2 * v + (IF sgn THEN 1 ELSE 0)
neg(x) == IF x % 2 = 0 THEN x + 1 ELSE x - 1
var(x) == x \div 2
sign(x) == x % 2 = 1

Last(q) == q[Len(q)]
\* f(e), with e worked out once before f looks at it
with(e, f(_)) == CHOOSE r \in {f(x) : x \in {e}} : TRUE
\* a loop over k = i, ..., n in this order: acc = f(acc, k)
RECURSIVE fold(_, _, _, _)
fold(f(_, _), acc, i, n) ==
    IF i > n THEN acc
    ELSE with(acc, LAMBDA a :
             IF i = n THEN f(a, i)
             ELSE fold(f, fold(f, a, i, (i + n) \div 2), (i + n) \div 2 + 1, n))
Front(q) == SubSeq(q, 1, Len(q) - 1)
\* unsigned arithmetic
U32(n) == n % (UINT_MAX + 1)
\* values an out-of-bounds read of an unsigned can produce
GarbageVals == (0 .. MaxGarbage) \cup {UINT_MAX}

----------------------------------------------------------------------------
(* Accessors *)

value(st, x) == st.m_assignment[x]
is_fixed(st, x) == value(st, x) # l_undef
is_true(st, x) == value(st, x) = l_true
inconsistent(st) == st.m_inconsistent
scope_lvl(st) == Len(st.m_trail_lim)
set_conflict(st) == [st EXCEPT !.m_inconsistent = TRUE]
\* the process stops: an out-of-bounds access faulted or an assertion failed
abort(st) == [st EXCEPT !.aborted = TRUE]

----------------------------------------------------------------------------
(* float: a value that is not negative, m * 2^e with a significand m of     *)
(* MantissaBits bits, rounded to nearest, ties to even, after every         *)
(* operation; <<0, 0>> is zero, <<0, 1>> is +infinity and <<0, 2>> is NaN.  *)
(* A double is given the same width.                                        *)

Zero == <<0, 0>>
Inf == <<0, 1>>
NaN == <<0, 2>>

RECURSIVE bit_length(_)
bit_length(m) == IF m = 0 THEN 0 ELSE 1 + bit_length(m \div 2)

\* the float nearest to m * 2^e
flt_round(m, e) ==
    IF m = 0 THEN Zero
    ELSE LET n == bit_length(m)
         IN  IF n <= MantissaBits
             THEN <<m * 2 ^ (MantissaBits - n), e - (MantissaBits - n)>>
             ELSE LET k == n - MantissaBits
                      q == m \div 2 ^ k
                      r == m % 2 ^ k
                      h == 2 ^ (k - 1)
                      q1 == IF r > h \/ (r = h /\ q % 2 = 1) THEN q + 1 ELSE q
                  IN  IF q1 = 2 ^ MantissaBits
                      THEN <<2 ^ (MantissaBits - 1), e + k + 1>>
                      ELSE <<q1, e + k>>

\* an unsigned converted to float
flt_of(n) == flt_round(n, 0)

\* bits a significand can be moved up inside an integer of TLC
GuardBits == 30 - MantissaBits

flt_add(a, b) ==
    IF a = NaN \/ b = NaN THEN NaN
    ELSE IF a = Inf \/ b = Inf THEN Inf
    ELSE IF a = Zero THEN b
    ELSE IF b = Zero THEN a
    ELSE LET hi == IF a[2] < b[2] THEN b ELSE a
             lo == IF a[2] < b[2] THEN a ELSE b
             d == hi[2] - lo[2]
         IN  IF d > GuardBits THEN hi
             ELSE flt_round(hi[1] * 2 ^ d + lo[1], lo[2])

\* infinity times zero is NaN
flt_mul(a, b) ==
    IF a = NaN \/ b = NaN THEN NaN
    ELSE IF a = Inf \/ b = Inf THEN (IF a = Zero \/ b = Zero THEN NaN ELSE Inf)
    ELSE flt_round(a[1] * b[1], a[2] + b[2])

\* x / 0 is infinity, 0 / 0 and infinity / infinity are NaN
flt_div(a, b) ==
    IF a = NaN \/ b = NaN THEN NaN
    ELSE IF a = Inf THEN (IF b = Inf THEN NaN ELSE Inf)
    ELSE IF b = Inf THEN Zero
    ELSE IF b = Zero THEN (IF a = Zero THEN NaN ELSE Inf)
    ELSE IF a = Zero THEN Zero
    ELSE LET n == a[1] * 2 ^ GuardBits
             q == n \div b[1]
             r == n % b[1]
         IN  flt_round(2 * q + (IF r > 0 THEN 1 ELSE 0), a[2] - b[2] - GuardBits - 1)

\* a < b: false when either is NaN
flt_lt(a, b) ==
    IF a = NaN \/ b = NaN \/ a = Inf THEN FALSE
    ELSE IF b = Inf THEN TRUE
    ELSE IF b = Zero THEN FALSE
    ELSE IF a = Zero THEN TRUE
    ELSE a[2] < b[2] \/ (a[2] = b[2] /\ a[1] < b[1])

\* a <= b
flt_le(a, b) ==
    IF a = NaN \/ b = NaN THEN FALSE
    ELSE a = b \/ flt_lt(a, b)

\* std::min(a, b): (b < a) ? b : a
std_min(a, b) == IF flt_lt(b, a) THEN b ELSE a

----------------------------------------------------------------------------
(* Assignment *)

assign_reversing(st, x) ==
    CASE value(st, x) = l_true -> st
      [] value(st, x) = l_false ->
            [set_conflict(st) EXCEPT !.m_assignment[x] = l_true,
                                     !.m_assignment[neg(x)] = l_false]
      [] OTHER ->
            [st EXCEPT !.m_assignment[x] = IF sign(x) THEN l_false ELSE l_true,
                       !.m_assignment[neg(x)] = IF sign(x) THEN l_false ELSE l_true,
                       !.m_trail = Append(@, x)]

assign(st, x) ==
    CASE value(st, x) = l_true -> st
      [] value(st, x) = l_false -> set_conflict(st)
      [] OTHER ->
            [st EXCEPT !.m_assignment[x] = IF sign(x) THEN l_false ELSE l_true,
                       !.m_assignment[neg(x)] = IF sign(x) THEN l_false ELSE l_true,
                       !.m_trail = Append(@, x)]

----------------------------------------------------------------------------
(* Binary-implication table *)

add_binary(st, l1, l2) ==
    LET b1 == [st.m_binary EXCEPT ![neg(l1)] = Append(@, l2)]
        b2 == [b1 EXCEPT ![neg(l2)] = Append(@, l1)]
    IN  [st EXCEPT !.m_binary = b2,
                   !.m_binary_trail = Append(@, neg(l1))]

\* lits.back() and pop_back() on an empty list read and write outside it:
\* the process faults, or some literal g is read and the size underflows
\* (the list is then modelled as still holding nothing).
del_binary(st, idx) ==
    LET lits == st.m_binary[idx]
        second(s1, x) ==
            IF s1.m_binary[neg(x)] # <<>>
            THEN {[s1 EXCEPT !.m_binary[neg(x)] = Front(@)]}
            ELSE {abort(s1), s1}
    IN  IF lits # <<>>
        THEN second([st EXCEPT !.m_binary[idx] = Front(@)], Last(lits))
        ELSE {abort(st)} \cup UNION {second(st, g) : g \in Lits}

inc_bstamp_no_fill(st) ==
    LET id == U32(st.m_bstamp_id + 1)
    IN  IF id = 0
        THEN [st EXCEPT !.m_bstamp_id = 1]
        ELSE [st EXCEPT !.m_bstamp_id = id]

inc_bstamp(st) ==
    LET id == U32(st.m_bstamp_id + 1)
    IN  IF id = 0
        THEN [st EXCEPT !.m_bstamp_id = 1, !.m_bstamp = [x \in Lits |-> 0]]
        ELSE [st EXCEPT !.m_bstamp_id = id]

set_bstamp(st, x) == [st EXCEPT !.m_bstamp[x] = st.m_bstamp_id]

RECURSIVE set_bstamps_loop(_, _, _)
set_bstamps_loop(st, conseq, i) ==
    IF i > Len(conseq) THEN st
    ELSE set_bstamps_loop(set_bstamp(st, conseq[i]), conseq, i + 1)

set_bstamps(st, x) ==
    set_bstamps_loop(set_bstamp(inc_bstamp(st), x), st.m_binary[x], 1)

is_stamped(st, x) == st.m_bstamp[x] = st.m_bstamp_id

RECURSIVE add_tc1_loop(_, _, _, _, _)
add_tc1_loop(st, u, v, i, sz) ==
    IF i > sz THEN [st |-> st, ret |-> TRUE]
    ELSE LET w == st.m_binary[v][i]
         IN  IF ~is_fixed(st, w)
             THEN IF is_stamped(st, neg(w))
                  THEN [st |-> assign(st, u), ret |-> FALSE]
                  ELSE add_tc1_loop(add_binary(st, u, w), u, v, i + 1, sz)
             ELSE add_tc1_loop(st, u, v, i + 1, sz)

add_tc1(st, u, v) == add_tc1_loop(st, u, v, 1, Len(st.m_binary[v]))

try_add_binary_wrong_unit(st, u, v) ==
    LET s1 == set_bstamps(st, neg(u))
    IN  IF is_stamped(s1, neg(v)) THEN assign(s1, v)
        ELSE IF is_stamped(s1, v) THEN s1
        ELSE LET r1 == add_tc1(s1, u, v)
             IN  IF ~r1.ret THEN r1.st
                 ELSE LET s2 == set_bstamps(r1.st, neg(v))
                      IN  IF is_stamped(s2, neg(u)) THEN assign(s2, v)
                          ELSE LET r2 == add_tc1(s2, v, u)
                               IN  IF r2.ret THEN add_binary(r2.st, u, v)
                                   ELSE r2.st

try_add_binary(st, u, v) ==
    LET s1 == set_bstamps(st, neg(u))
    IN  IF is_stamped(s1, neg(v)) THEN assign(s1, u)
        ELSE IF is_stamped(s1, v) THEN s1
        ELSE LET r1 == add_tc1(s1, u, v)
             IN  IF ~r1.ret THEN r1.st
                 ELSE LET s2 == set_bstamps(r1.st, neg(v))
                      IN  IF is_stamped(s2, neg(u)) THEN assign(s2, v)
                          ELSE LET r2 == add_tc1(s2, v, u)
                               IN  IF r2.ret THEN add_binary(r2.st, u, v)
                                   ELSE r2.st

----------------------------------------------------------------------------
(* Propagation *)

RECURSIVE propagate_binary_loop(_, _, _)
propagate_binary_loop(st, lits, i) ==
    IF inconsistent(st) \/ i > Len(lits) THEN st
    ELSE propagate_binary_loop(assign(st, lits[i]), lits, i + 1)

propagate_binary(st, x) == propagate_binary_loop(st, st.m_binary[x], 1)

\* The general-clause case of propagate_clauses works on the clause of the
\* solver (s.m_cls_allocator), whose literals it reorders.  Result: the
\* state and whether the watch is kept in the list of x.
RECURSIVE find_watch(_, _, _, _, _)
find_watch(st, x, off, j, found) ==
    LET c == st.s.m_clauses[off]
    IN  IF j > Len(c) \/ found >= 2 THEN [st |-> st, found |-> found]
        ELSE IF value(st, c[j]) # l_false
             THEN IF found + 1 = 2 THEN [st |-> st, found |-> 2]
                  ELSE LET c1 == [c EXCEPT ![2] = c[j], ![j] = neg(x)]
                           s1 == [st EXCEPT !.s.m_clauses[off] = c1,
                                            !.m_watches[neg(c1[2])] =
                                                Append(@, [kind |-> "CLAUSE", blocked |-> c1[1], cls_off |-> off])]
                       IN  find_watch(s1, x, off, j + 1, found + 1)
             ELSE find_watch(st, x, off, j + 1, found)

propagate_clause_watch(st, x, w) ==
    LET off == w.cls_off
        c0 == st.s.m_clauses[off]
        c == IF c0[1] = neg(x) THEN [c0 EXCEPT ![1] = c0[2], ![2] = c0[1]] ELSE c0
        s1 == [st EXCEPT !.s.m_clauses[off] = c]
    IN  IF value(s1, c[1]) = l_true
        THEN [st |-> s1, keep |-> <<[w EXCEPT !.blocked = c[1]]>>]
        ELSE LET r == find_watch(s1, x, off, 3, 0)
             IN  IF r.found >= 1 THEN [st |-> r.st, keep |-> <<>>]
                 ELSE IF value(r.st, r.st.s.m_clauses[off][1]) = l_false
                      THEN [st |-> set_conflict(r.st), keep |-> <<>>]
                      ELSE [st |-> assign([r.st EXCEPT !.m_stats.m_propagations = @ + 1],
                                          r.st.s.m_clauses[off][1]),
                            keep |-> <<w>>]

propagate_ternary_watch(st, w) ==
    LET val1 == value(st, w.l1)
        val2 == value(st, w.l2)
    IN  CASE val1 = l_false /\ val2 = l_undef ->
                assign([st EXCEPT !.m_stats.m_propagations = @ + 1], w.l2)
          [] val1 = l_undef /\ val2 = l_false ->
                assign([st EXCEPT !.m_stats.m_propagations = @ + 1], w.l1)
          [] val1 = l_false /\ val2 = l_false -> set_conflict(st)
          [] OTHER -> st

RECURSIVE propagate_clauses_loop(_, _, _, _, _)
propagate_clauses_loop(st, x, wlist, i, kept) ==
    IF i > Len(wlist) \/ inconsistent(st)
    THEN [st EXCEPT !.m_watches[x] =
              kept \o SubSeq(wlist, i, Len(wlist))
                   \o SubSeq(@, Len(wlist) + 1, Len(@))]
    ELSE LET w == wlist[i]
         IN  IF w.kind = "TERNARY"
             THEN propagate_clauses_loop(propagate_ternary_watch(st, w), x, wlist,
                                         i + 1, Append(kept, w))
             ELSE IF w.kind = "CLAUSE"
             THEN LET r == propagate_clause_watch(st, x, w)
                  IN  propagate_clauses_loop(r.st, x, wlist, i + 1, kept \o r.keep)
             ELSE abort(st)

propagate_clauses(st, x) ==
    IF inconsistent(st) THEN st
    ELSE propagate_clauses_loop(st, x, st.m_watches[x], 1, <<>>)

RECURSIVE propagate(_)
propagate(st) ==
    IF st.m_qhead < Len(st.m_trail) /\ ~inconsistent(st) /\ ~st.aborted
    THEN LET x == st.m_trail[st.m_qhead + 1]
             s1 == propagate_clauses(propagate_binary(st, x), x)
         IN  propagate([s1 EXCEPT !.m_qhead = @ + 1])
    ELSE st

----------------------------------------------------------------------------
(* Scopes *)

push(st, lit) ==
    LET s1 == [st EXCEPT !.m_binary_trail_lim = Append(@, Len(st.m_binary_trail)),
                         !.m_units_lim = Append(@, Len(st.m_units)),
                         !.m_trail_lim = Append(@, Len(st.m_trail)),
                         !.m_qhead_lim = Append(@, st.m_qhead),
                         !.m_trail = Append(@, lit)]
    IN  propagate(assign(s1, lit))

\* remove local binary clauses: del_binary for every entry of the binary
\* trail from old_sz on (the binary trail itself is left as it is)
RECURSIVE pop_del_binary(_, _)
pop_del_binary(st, i) ==
    IF st.aborted \/ i >= Len(st.m_binary_trail) THEN {st}
    ELSE UNION {pop_del_binary(s1, i + 1) : s1 \in del_binary(st, st.m_binary_trail[i + 1])}

\* add implied binary clauses: one for every unit learned in the scope
RECURSIVE pop_add_implied(_, _)
pop_add_implied(st, i) ==
    IF i >= Len(st.m_units) THEN st
    ELSE pop_add_implied(add_binary(st, neg(Last(st.m_trail)), st.m_units[i + 1]), i + 1)

\* the rest of pop(), from "add implied binary clauses" on; m_qhead is read
\* from the back of m_qhead_lim after its pop_back(): outside the vector
\* when that was the last scope.
pop_tail(st) ==
    LET new_unit_sz == Last(st.m_units_lim)
        s1 == pop_add_implied(st, new_unit_sz)
        s2 == [s1 EXCEPT !.m_units = SubSeq(@, 1, new_unit_sz),
                         !.m_units_lim = Front(@),
                         !.m_trail = SubSeq(@, 1, Len(st.m_trail_lim)),
                         !.m_trail_lim = Front(@),
                         !.m_qhead_lim = Front(@),
                         !.m_inconsistent = FALSE]
    IN  IF s2.m_qhead_lim # <<>>
        THEN {[s2 EXCEPT !.m_qhead = Last(s2.m_qhead_lim)]}
        ELSE {abort(s2)} \cup {[s2 EXCEPT !.m_qhead = g] : g \in GarbageVals}

pop(st) ==
    IF st.m_binary_trail_lim = <<>> THEN {abort(st)}
    ELSE LET old_sz == Last(st.m_binary_trail_lim)
             s0 == [st EXCEPT !.m_binary_trail_lim = Front(@)]
         IN  UNION {IF s1.aborted THEN {s1} ELSE pop_tail(s1)
                    : s1 \in pop_del_binary(s0, old_sz)}

\* m_units.size() - m_units_lim.back(), given what back() reads
diff_from(st, back) == U32(Len(st.m_units) - back)
diff(st) == diff_from(st, Last(st.m_units_lim))

mix_diff(a, b) == U32(a + b + 1024 * a * b)

----------------------------------------------------------------------------
(* Probing: double lookahead and the decision driver *)

\* m_delta_trigger is kept in quarters: (1 - m_dl_success) / m_dl_success
\* is one quarter for m_dl_success = 0.8
update_delta_trigger(st) ==
    IF inconsistent(st) THEN [st EXCEPT !.m_delta_trigger = @ - 1]
    ELSE [st EXCEPT !.m_delta_trigger = @ + 4]

\* diff() reads m_units_lim.back(): outside the vector at scope level 0
do_double(st) ==
    IF inconsistent(st) THEN {[st |-> st, ret |-> FALSE]}
    ELSE IF st.m_units_lim # <<>>
         THEN {[st |-> st, ret |-> 4 * diff(st) > st.m_delta_trigger]}
         ELSE {[st |-> abort(st), ret |-> FALSE]}
              \cup {[st |-> st, ret |-> 4 * diff_from(st, g) > st.m_delta_trigger]
                    : g \in GarbageVals}

\* one round of the loop of double_look from candidate i on
RECURSIVE double_look_from(_, _, _)
double_look_from(st, P, i) ==
    IF st.aborted THEN {st}
    ELSE IF inconsistent(st) \/ i > Len(P) THEN {update_delta_trigger(st)}
    ELSE LET lit == P[i]
             s1 == push(st, lit)
             s3 == [s2 \in pop(s1) |-> push(s2, neg(lit))]
         IN  IF value(st, lit) # l_undef THEN double_look_from(st, P, i + 1)
             ELSE IF inconsistent(s1)
             THEN UNION {double_look_from(IF s2.aborted THEN s2 ELSE assign(s2, neg(lit)), P, i + 1)
                         : s2 \in pop(s1)}
             ELSE UNION {IF s2.aborted THEN {s2}
                         ELSE UNION {double_look_from(
                                        IF s4.aborted \/ ~inconsistent(s3[s2]) THEN s4
                                        ELSE assign(s4, lit), P, i + 1)
                                     : s4 \in pop(s3[s2])}
                         : s2 \in pop(s1)}

double_look(st, P) == double_look_from(st, P, 1)

\* if (do_double()) double_look(P);
look_further(st, P) ==
    UNION {IF d.st.aborted \/ ~d.ret THEN {d.st} ELSE double_look(d.st, P)
           : d \in do_double(st)}

RECURSIVE select_variables_from(_, _)
select_variables_from(st, i) ==
    IF i >= NumVars THEN <<>>
    ELSE IF value(st, literal(i, FALSE)) = l_undef
         THEN <<literal(i, FALSE)>> \o select_variables_from(st, i + 1)
         ELSE select_variables_from(st, i + 1)

select_variables(st) == select_variables_from(st, 0)

\* order_by_implication_trees leaves P as it is; for the first candidate,
\* which finds no root, it indexes m_binary by the complement of the
\* default-constructed lit2 (null_literal): a read outside m_binary, which
\* faults or reads a list that changes only the function's locals.
order_by_implication_trees(st, P) ==
    IF P = <<>> THEN {st} ELSE {st, abort(st)}

pre_select(st) ==
    LET P == select_variables(st)
    IN  {[st |-> s1, P |-> P] : s1 \in order_by_implication_trees(st, P)}

\* s.m_rand(count): a number below count
m_rand(count) == 0 .. (count - 1)

\* what one round of the loop of choose1 leaves: the state, the locals h,
\* count and l, whether the function returns here (stop) and with what
\* (ret), and what the round saw: how it ended (kind), the values it read
\* into diff1 and diff2, and the states in which it read them (at1, at2)
\* with the state in which the second probe started (pre2)
probed(s, h, count, x, stop, ret, kind, seen) ==
    [st |-> s, h |-> h, count |-> count, l |-> x, stop |-> stop, ret |-> ret,
     kind |-> kind, diff1 |-> seen.diff1, diff2 |-> seen.diff2,
     at1 |-> seen.at1, pre2 |-> seen.pre2, at2 |-> seen.at2]

\* a round that leaves the scope of its probe open
choose1_step_open(st, P, i, h, count, x) ==
    LET seen == [diff1 |-> 0, diff2 |-> 0, at1 |-> st, pre2 |-> st, at2 |-> st]
    IN  {probed(s2, h, count, x, s2.aborted, TRUE, "failed1", seen)
         : s2 \in look_further(push(st, P[i]), P)}

\* one round of the loop of choose1, for candidate i, with the locals h,
\* count and x (x is the literal chosen so far, the l of the code)
choose1_step(st, P, i, h, count, x) ==
    LET lit == P[i]
        none == [diff1 |-> 0, diff2 |-> 0, at1 |-> st, pre2 |-> st, at2 |-> st]
        fault(s, seen) == probed(s, h, count, x, TRUE, TRUE, "fault", seen)
        failed(s2) ==
            \* pop(); assign(~lit); if (do_double()) double_look(P);
            \* if (inconsistent()) return true; continue;
            LET seen == [none EXCEPT !.at1 = s2]
            IN  UNION {IF s3.aborted THEN {fault(s3, seen)}
                       ELSE {IF s5.aborted THEN fault(s5, seen)
                             ELSE IF inconsistent(s5)
                             THEN probed(s5, h, count, x, TRUE, TRUE, "conflict", seen)
                             ELSE probed(s5, h, count, x, FALSE, FALSE, "failed1", seen)
                             : s5 \in look_further(assign(s3, neg(lit)), P)}
                       : s3 \in pop(s2)}
        scored(s6, seen) ==
            LET mixd == mix_diff(seen.diff1, seen.diff2)
                pick == IF seen.diff1 < seen.diff2 THEN lit ELSE neg(lit)
                won(c) == probed(s6, mixd, c, pick, FALSE, FALSE, "scored", seen)
                lost == probed(s6, h, count, x, FALSE, FALSE, "scored", seen)
            IN  IF mixd > h THEN {won(1)}
                ELSE IF mixd = h
                THEN {IF r = 0 THEN won(count + 1) ELSE lost : r \in m_rand(count)}
                ELSE {lost}
        second(s3, s5, diff1, s2) ==
            \* bool unsat2 = inconsistent(); diff2 = diff(); pop();
            \* if (unsat2) { assign(lit); continue; }
            LET seen == [diff1 |-> diff1, diff2 |-> diff(s5),
                         at1 |-> s2, pre2 |-> s3, at2 |-> s5]
            IN  UNION {IF s6.aborted THEN {fault(s6, seen)}
                       ELSE IF inconsistent(s5)
                       THEN {probed(assign(s6, lit), h, count, x, FALSE, FALSE,
                                    "failed2", seen)}
                       ELSE scored(s6, seen)
                       : s6 \in pop(s5)}
        first(s2) ==
            \* diff1 = diff(); pop(); push(~lit); if (do_double()) double_look(P);
            UNION {IF s3.aborted THEN {fault(s3, [none EXCEPT !.at1 = s2])}
                   ELSE UNION {IF s5.aborted
                               THEN {fault(s5, [none EXCEPT !.at1 = s2, !.pre2 = s3])}
                               ELSE second(s3, s5, diff(s2), s2)
                               : s5 \in look_further(push(s3, neg(lit)), P)}
                   : s3 \in pop(s2)}
    IN  UNION {IF s2.aborted THEN {fault(s2, none)}
               ELSE IF inconsistent(s2) THEN failed(s2)
               ELSE first(s2)
               : s2 \in look_further(push(st, lit), P)}

\* the loop of choose1 from candidate i on
RECURSIVE choose1_from(_, _, _, _, _, _)
choose1_from(st, P, i, h, count, x) ==
    IF st.aborted THEN {[st |-> st, l |-> x, ret |-> TRUE]}
    ELSE IF i > Len(P) THEN {[st |-> st, l |-> x, ret |-> x # null_literal]}
    ELSE UNION {IF r.stop THEN {[st |-> r.st, l |-> r.l, ret |-> r.ret]}
                ELSE choose1_from(r.st, P, i + 1, r.h, r.count, r.l)
                : r \in choose1_step(st, P, i, h, count, x)}

choose1_retry_empty(st) ==
    UNION {IF ps.st.aborted THEN {[st |-> ps.st, l |-> null_literal, ret |-> TRUE]}
           ELSE IF ps.P = <<>> THEN {[st |-> ps.st, l |-> null_literal, ret |-> FALSE]}
           ELSE choose1_from(ps.st, ps.P, 1, 0, 1, null_literal)
           : ps \in pre_select(st)}

choose1(st) ==
    UNION {IF ps.st.aborted \/ ps.P = <<>>
           THEN {[st |-> ps.st, l |-> null_literal, ret |-> TRUE]}
           ELSE choose1_from(ps.st, ps.P, 1, 0, 1, null_literal)
           : ps \in pre_select(st)}

\* while (!choose1(l)) {}; a round that returns false has fixed its first
\* candidate, so a later round has fewer candidates
RECURSIVE choose(_)
choose(st) ==
    UNION {IF r.ret THEN {[st |-> r.st, l |-> r.l]} ELSE choose(r.st)
           : r \in choose1(st)}

\* backtrack(trail): the state, the trail and the value returned
backtrack(st, tr) ==
    IF tr = <<>> THEN {[st |-> st, trail |-> tr, ret |-> FALSE]}
    ELSE {[st |-> IF s1.aborted THEN s1 ELSE assign(s1, neg(Last(tr))),
           trail |-> Front(tr), ret |-> TRUE] : s1 \in pop(st)}

----------------------------------------------------------------------------
(* The solver the lookahead is built from (solver& s): its binary watches, *)
(* its clauses and its trail of units are read once, by init()             *)

\* solver::mk_bin_clause: the clause l1 \/ l2 is watched by ~l1 and by ~l2
mk_bin_clause(watches, c) ==
    LET w1 == [watches EXCEPT ![neg(c.l1)] = Append(@, [lit |-> c.l2, learned |-> c.learned])]
    IN  [w1 EXCEPT ![neg(c.l2)] = Append(@, [lit |-> c.l1, learned |-> c.learned])]

RECURSIVE mk_bin_clauses(_, _, _)
mk_bin_clauses(watches, cs, i) ==
    IF i > Len(cs) THEN watches
    ELSE mk_bin_clauses(mk_bin_clause(watches, cs[i]), cs, i + 1)

solver(units, bins, clauses) ==
    [m_watches |-> mk_bin_clauses([x \in Lits |-> <<>>], bins, 1),
     m_clauses |-> clauses,
     m_trail   |-> units,
     num_vars  |-> NumVars]

SeqsUpTo(S, n) == UNION {[1 .. k -> S] : k \in 0 .. n}
IsInjective(q) == \A i, j \in DOMAIN q : i # j => q[i] # q[j]

BinClauses ==
    {[l1 |-> a, l2 |-> b, learned |-> f] :
        a \in Lits, b \in Lits, f \in BOOLEAN} 
TernaryClauses ==
    {c \in [1 .. 3 -> Lits] : var(c[1]) < var(c[2]) /\ var(c[2]) < var(c[3])}

\* units without repetition
UnitTrails(n) == {q \in SeqsUpTo(Lits, n) : IsInjective(q)}
\* binary clauses over two variables, pairwise distinct
BinClauseSeqs(flags) ==
    {q \in SeqsUpTo({k \in BinClauses : k.l1 < k.l2 /\ var(k.l1) # var(k.l2)
                                        /\ k.learned \in flags}, MaxBinClauses) :
        \A i, j \in DOMAIN q : i < j => <<q[i].l1, q[i].l2>> # <<q[j].l1, q[j].l2>>}

\* the solvers check() is run on
Solvers ==
    {solver(u, b, c) :
        u \in UnitTrails(MaxUnits), b \in BinClauseSeqs(BOOLEAN),
        c \in {q \in SeqsUpTo(TernaryClauses, MaxClauses) : IsInjective(q)}}

\* the solvers the call sequences start from: no operation but check()
\* reads the non-binary clauses, and init() skips a learned binary clause
PlainSolvers ==
    {solver(u, b, <<>>) : u \in UnitTrails(MaxPlainUnits), b \in BinClauseSeqs({FALSE})}

\* the solvers that hand over binary clauses only
TableSolvers ==
    {solver(<<>>, b, <<>>) : b \in BinClauseSeqs({FALSE})}

\* the solvers that hand over a formula of binary clauses
FormulaSolvers ==
    {solver(<<>>, b, <<>>) :
        b \in {q \in SeqsUpTo({k \in BinClauses : k.l1 < k.l2 /\ var(k.l1) # var(k.l2)
                                                    /\ ~k.learned}, MaxFormulaClauses) :
                  IsInjective(q)}}

\* the solvers that hand over all four binary clauses of two variables
ContradictionSolvers ==
    {solver(<<>>, b, <<>>) :
        b \in {q \in [1 .. 4 -> {k \in BinClauses : k.l1 < k.l2 /\ ~k.learned
                                                    /\ var(k.l1) = 0 /\ var(k.l2) = 1}] :
                  IsInjective(q)}}

----------------------------------------------------------------------------
(* Implication graph: strongly connected components of the candidates *)

get_rating(st, x) == st.m_rating[var(x)]

\* dfs_info::reset
dfs_info == [m_rank |-> 0, m_height |-> 0, m_parent |-> null_literal,
             m_next |-> <<>>, m_nextp |-> 0, m_link |-> null_literal,
             m_min |-> null_literal, m_vcomp |-> null_literal]

init_dfs_info(st, x) == set_bstamp([st EXCEPT !.m_dfs[x] = dfs_info], x)
add_arc(st, u, v) == [st EXCEPT !.m_dfs[u].m_next = Append(@, v)]
has_arc(st, v) == Len(st.m_dfs[v].m_next) > st.m_dfs[v].m_nextp
get_min(st, v) == st.m_dfs[v].m_min
get_rank(st, v) == st.m_dfs[v].m_rank
get_parent(st, u) == st.m_dfs[u].m_parent
get_link(st, u) == st.m_dfs[u].m_link
get_vcomp(st, u) == st.m_dfs[u].m_vcomp
set_link(st, v, u) == [st EXCEPT !.m_dfs[v].m_link = u]
set_min(st, v, u) == [st EXCEPT !.m_dfs[v].m_min = u]
set_rank(st, v, r) == [st EXCEPT !.m_dfs[v].m_rank = r]
set_parent(st, v, p) == [st EXCEPT !.m_dfs[v].m_parent = p]
set_vcomp(st, v, u) == [st EXCEPT !.m_dfs[v].m_vcomp = u]

\* for an implication x => u the arcs u -> x and ~x -> ~u
RECURSIVE init_arcs_loop(_, _, _)
init_arcs_loop(st, x, i) ==
    IF i > Len(st.m_binary[x]) THEN st
    ELSE LET u == st.m_binary[x][i]
         IN  IF u > x /\ is_stamped(st, u)
             THEN init_arcs_loop(add_arc(add_arc(st, neg(x), neg(u)), u, x), x, i + 1)
             ELSE init_arcs_loop(st, x, i + 1)

\* arcs that are added in both directions
RECURSIVE init_arcs_undirected_loop(_, _, _)
init_arcs_undirected_loop(st, x, i) ==
    IF i > Len(st.m_binary[x]) THEN st
    ELSE LET u == st.m_binary[x][i]
         IN  IF u > x /\ is_stamped(st, u)
             THEN init_arcs_undirected_loop(
                      add_arc(add_arc(add_arc(add_arc(st, neg(x), neg(u)), u, x),
                                      neg(u), neg(x)), x, u), x, i + 1)
             ELSE init_arcs_undirected_loop(st, x, i + 1)

init_arcs_undirected(st, x) == init_arcs_undirected_loop(st, x, 1)

init_arcs(st, x) == init_arcs_loop(st, x, 1)

RECURSIVE init_scc_infos(_, _)
init_scc_infos(st, i) ==
    IF i > Len(st.m_candidates) THEN st
    ELSE LET lit == literal(st.m_candidates[i].m_var, FALSE)
         IN  init_scc_infos(init_dfs_info(init_dfs_info(st, lit), neg(lit)), i + 1)

RECURSIVE init_scc_arcs(_, _)
init_scc_arcs(st, i) ==
    IF i > Len(st.m_candidates) THEN st
    ELSE LET lit == literal(st.m_candidates[i].m_var, FALSE)
         IN  init_scc_arcs(init_arcs(init_arcs(st, lit), neg(lit)), i + 1)

init_scc(st) ==
    [init_scc_arcs(init_scc_infos(inc_bstamp(st), 1), 1)
        EXCEPT !.m_rank = 0, !.m_active = null_literal]

activate_scc(st, x) ==
    LET r == U32(st.m_rank + 1)
        s1 == set_min(set_link(set_rank([st EXCEPT !.m_rank = r], x, r), x, st.m_active), x, x)
    IN  [s1 EXCEPT !.m_active = x]

\* the loop of found_scc keeping the member rated lowest
RECURSIVE found_scc_loop_lowest(_, _, _, _, _)
found_scc_loop_lowest(st, v, t, best, best_rating) ==
    IF t = v THEN [st |-> st, best |-> best]
    ELSE IF t = null_literal THEN [st |-> abort(st), best |-> best]
    ELSE LET s1 == set_parent(set_rank(st, t, UINT_MAX), t, v)
             lower == flt_lt(get_rating(st, t), best_rating)
         IN  found_scc_loop_lowest(s1, v, get_link(s1, t),
                                   IF lower THEN t ELSE best,
                                   IF lower THEN get_rating(st, t) ELSE best_rating)

\* the members of the class of v: the active list from its head down to v;
\* following the list past its end reads m_dfs outside the vector
RECURSIVE found_scc_loop(_, _, _, _, _)
found_scc_loop(st, v, t, best, best_rating) ==
    IF t = v THEN [st |-> st, best |-> best]
    ELSE IF t = null_literal THEN [st |-> abort(st), best |-> best]
    ELSE LET s1 == set_parent(set_rank(st, t, UINT_MAX), t, v)
             better == flt_lt(best_rating, get_rating(st, t))
         IN  found_scc_loop(s1, v, get_link(s1, t),
                            IF better THEN t ELSE best,
                            IF better THEN get_rating(st, t) ELSE best_rating)

found_scc(st, v) ==
    LET s0 == [st EXCEPT !.m_active = get_link(st, v)]
        r == found_scc_loop(set_rank(s0, v, UINT_MAX), v, st.m_active, v, get_rating(st, v))
        s1 == set_vcomp(set_parent(r.st, v, v), v, r.best)
    IN  IF r.st.aborted THEN r.st
        ELSE IF get_rank(s1, neg(v)) = UINT_MAX
             THEN set_vcomp(s1, v, neg(get_vcomp(s1, get_parent(s1, neg(v)))))
             ELSE s1

\* the loop of get_scc(literal v).  get_min(u) on the null parent of a root
\* whose min is another literal reads m_dfs outside the vector.
RECURSIVE get_scc_loop(_, _)
get_scc_loop(st, v) ==
    IF v = null_literal \/ st.aborted THEN st
    ELSE LET ll == get_min(st, v)
         IN  IF ~has_arc(st, v)
             THEN LET u == get_parent(st, v)
                  IN  IF v = ll THEN get_scc_loop(found_scc(st, v), u)
                      ELSE IF u = null_literal THEN abort(st)
                      ELSE IF get_rank(st, ll) < get_rank(st, get_min(st, u))
                           THEN get_scc_loop(set_min(st, u, ll), u)
                           ELSE get_scc_loop(st, u)
             ELSE LET u == st.m_dfs[v].m_next[st.m_dfs[v].m_nextp + 1]
                      s1 == [st EXCEPT !.m_dfs[v].m_nextp = @ + 1]
                      r == get_rank(s1, u)
                  IN  IF r > 0
                      THEN get_scc_loop(IF r < get_rank(s1, ll) THEN set_min(s1, v, u) ELSE s1, v)
                      ELSE get_scc_loop(activate_scc(set_parent(s1, u, v), u), u)

get_scc_from(st, v) == get_scc_loop(activate_scc(set_parent(st, v, null_literal), v), v)

RECURSIVE get_scc_roots(_, _)
get_scc_roots(st, i) ==
    IF i > Len(st.m_candidates) \/ st.aborted THEN st
    ELSE LET lit == literal(st.m_candidates[i].m_var, FALSE)
             s1 == IF get_rank(st, lit) = 0 THEN get_scc_from(st, lit) ELSE st
             s2 == IF ~s1.aborted /\ get_rank(s1, neg(lit)) = 0
                   THEN get_scc_from(s1, neg(lit)) ELSE s1
         IN  get_scc_roots(s2, i + 1)

get_scc(st) == get_scc_roots(init_scc(st), 1)

----------------------------------------------------------------------------
(* Lookahead forest *)

get_height(st, v) == st.m_dfs[v].m_height
set_height(st, v, h) == [st EXCEPT !.m_dfs[v].m_height = h]
num_next(st, u) == Len(st.m_dfs[u].m_next)
get_next(st, u, i) == st.m_dfs[u].m_next[i + 1]
get_child(st, u) == IF u = null_literal THEN st.m_root_child ELSE st.m_dfs[u].m_min
set_child(st, v, u) ==
    IF v = null_literal THEN [st EXCEPT !.m_root_child = u]
    ELSE [st EXCEPT !.m_dfs[v].m_min = u]

\* the inner loop of find_heights over the arcs of ~u: the pairs <<h, w>>
\* it can end with; get_height of a null parent reads m_dfs outside the
\* vector (a fault, shown as h = -1, or any value)
RECURSIVE find_heights_arcs(_, _, _, _, _, _)
find_heights_arcs(st, u, p, j, h, w) ==
    IF j >= num_next(st, neg(u)) THEN {<<h, w>>}
    ELSE LET v == neg(get_next(st, neg(u), j))
             pv == get_parent(st, v)
             higher(hh) == IF hh >= h THEN find_heights_arcs(st, u, p, j + 1, hh + 1, pv)
                           ELSE find_heights_arcs(st, u, p, j + 1, h, w)
         IN  IF pv = p THEN find_heights_arcs(st, u, p, j + 1, h, w)
             ELSE IF pv = null_literal
                  THEN {<<-1, w>>} \cup UNION {higher(g) : g \in GarbageVals}
                  ELSE higher(get_height(st, pv))

\* the loop of find_heights from the settled literal u on
RECURSIVE find_heights_loop(_, _, _, _, _)
find_heights_loop(st, u, pp, h, w) ==
    IF u = null_literal \/ st.aborted THEN {st}
    ELSE LET p == get_parent(st, u)
             h0 == IF p # pp THEN 0 ELSE h
             w0 == IF p # pp THEN null_literal ELSE w
             placed(h1, w1) ==
                 IF p = u
                 THEN LET v == get_child(st, w1)
                      IN  set_child(set_link(set_child(set_height(st, u, h1), u, null_literal),
                                             u, v), w1, u)
                 ELSE st
         IN  UNION {IF r[1] < 0 THEN {abort(st)}
                    ELSE find_heights_loop(placed(r[1], r[2]),
                                           get_link(placed(r[1], r[2]), u), p, r[1], r[2])
                    : r \in find_heights_arcs(st, u, p, 0, h0, w0)}

find_heights(st) ==
    find_heights_loop(set_child(st, null_literal, null_literal), st.m_settled,
                      null_literal, 0, null_literal)

set_offset(st, idx, offset) == [st EXCEPT !.m_lookahead[idx + 1].m_offset = offset]
set_lookahead(st, x) == [st EXCEPT !.m_lookahead = Append(@, [m_lit |-> x, m_offset |-> 0])]

\* the inner loop of construct_lookahead_table: offsets for u and for the
\* parents whose last child u is
RECURSIVE lookahead_offsets(_, _, _, _)
lookahead_offsets(st, u, v, offset) ==
    LET s1 == set_parent(set_offset(st, get_rank(st, u), offset), u,
                         IF v = null_literal THEN v ELSE get_vcomp(st, v))
        u1 == get_link(s1, u)
    IN  IF u1 = null_literal /\ v # null_literal
        THEN lookahead_offsets(s1, v, get_parent(s1, v), offset + 2)
        ELSE [st |-> s1, u |-> u1, v |-> v, offset |-> offset + 2]

\* the outer loop: the state and the offset reached
RECURSIVE lookahead_table_loop(_, _, _, _)
lookahead_table_loop(st, u, v, offset) ==
    IF u = null_literal THEN [st |-> st, offset |-> offset]
    ELSE LET s1 == set_lookahead(set_rank(st, u, Len(st.m_lookahead)), get_vcomp(st, u))
         IN  IF get_child(s1, u) # null_literal
             THEN lookahead_table_loop(set_parent(s1, u, v), get_child(s1, u), u, offset)
             ELSE LET r == lookahead_offsets(s1, u, v, offset)
                  IN  lookahead_table_loop(r.st, r.u, r.v, r.offset)

construct_lookahead_table(st) ==
    lookahead_table_loop([st EXCEPT !.m_lookahead = <<>>],
                         get_child(st, null_literal), null_literal, 0)

\* find_heights(); construct_lookahead_table();
construct_forest(st) ==
    {IF s1.aborted THEN [st |-> s1, offset |-> 0] ELSE construct_lookahead_table(s1)
     : s1 \in find_heights(st)}

----------------------------------------------------------------------------
(* Construction *)

\* copy binary clauses: watch j of the solver's list l_idx, and those after it
RECURSIVE init_binary_list(_, _, _)
init_binary_list(st, l_idx, j) ==
    LET wlist == st.s.m_watches[l_idx]
    IN  IF j > Len(wlist) THEN st
        ELSE IF ~wlist[j].learned /\ neg(l_idx) < wlist[j].lit
             THEN init_binary_list(add_binary(st, neg(l_idx), wlist[j].lit), l_idx, j + 1)
             ELSE init_binary_list(st, l_idx, j + 1)

\* copy binary clauses: every list of s.m_watches
init_binary(st) ==
    fold(LAMBDA s0, l_idx : init_binary_list(s0, l_idx, 1), st, 0, 2 * st.s.num_vars - 1)

\* watches for the copied clauses, on the complements of their first two
\* literals (what the copy loop of init leaves to be done)
RECURSIVE add_clause_watches(_, _)
add_clause_watches(st, i) ==
    IF i > Len(st.s.m_clauses) THEN st
    ELSE LET c == st.s.m_clauses[i]
             w == [kind |-> "CLAUSE", blocked |-> c[1], cls_off |-> i]
         IN  add_clause_watches([st EXCEPT !.m_watches[neg(c[1])] = Append(@, w),
                                           !.m_watches[neg(c[2])] = Append(@, w)], i + 1)

\* copy units, then add the watches
RECURSIVE init_units_watched(_, _)
init_units_watched(st, i) ==
    IF i > Len(st.s.m_trail) THEN add_clause_watches(st, 1)
    ELSE init_units_watched(assign([st EXCEPT !.m_units = Append(@, st.s.m_trail[i])],
                                   st.s.m_trail[i]), i + 1)

\* copy units
RECURSIVE init_units(_, _)
init_units(st, i) ==
    IF i > Len(st.s.m_trail) THEN st
    ELSE init_units(assign([st EXCEPT !.m_units = Append(@, st.s.m_trail[i])],
                           st.s.m_trail[i]), i + 1)

init(s) ==
    LET lits == 0 .. (2 * s.num_vars - 1)
        st0 == [s                  |-> s,
                m_delta_trigger    |-> 4 * (s.num_vars \div 10),
                m_inconsistent     |-> FALSE,
                m_qhead            |-> 0,
                m_bstamp_id        |-> 0,
                m_trail            |-> <<>>,
                m_trail_lim        |-> <<>>,
                m_units            |-> <<>>,
                m_units_lim        |-> <<>>,
                m_binary           |-> [x \in lits |-> <<>>],
                m_binary_trail     |-> <<>>,
                m_binary_trail_lim |-> <<>>,
                m_qhead_lim        |-> <<>>,
                m_clauses          |-> <<>>,
                m_bstamp           |-> [x \in lits |-> 0],
                m_assignment       |-> [x \in lits |-> l_undef],
                m_watches          |-> [x \in lits |-> <<>>],
                m_freevars         |-> <<>>,
                m_H                |-> <<>>,
                m_rating           |-> [v \in 0 .. (s.num_vars - 1) |-> Zero],
                m_candidates       |-> <<>>,
                m_dfs              |-> [x \in lits |-> dfs_info],
                m_rank             |-> 0,
                m_active           |-> null_literal,
                m_settled          |-> null_literal,
                m_root_child       |-> null_literal,
                m_lookahead        |-> <<>>,
                m_stats            |-> [m_propagations |-> 0],
                aborted            |-> FALSE]
        st1 == init_binary(st0)
        st2 == [st1 EXCEPT !.m_clauses = s.m_clauses]
    IN  init_units(st2, 1)

----------------------------------------------------------------------------
(* Spec: the operations of a lookahead instance, called in any order       *)

NoOp == [name |-> "init", a |-> null_literal, b |-> null_literal,
         ret |-> null_literal, pre |-> l_undef]
NoRt == [phase |-> "off", depth |-> 0, base |-> <<>>]

Init ==
    /\ \E s \in PlainSolvers : la = init(s)
    /\ pc = "ready"
    /\ search_trail = <<>>
    /\ search_l = null_literal
    /\ op = NoOp
    /\ steps = 0
    /\ rt = NoRt

\* one more operation is called on the running instance
Called ==
    /\ ~la.aborted
    /\ steps < MaxOps
    /\ steps' = steps + 1

DoAssign(x) ==
    /\ Called
    /\ la' = assign(la, x)
    /\ op' = [NoOp EXCEPT !.name = "assign", !.a = x, !.pre = value(la, x)]
    /\ UNCHANGED <<pc, search_trail, search_l, rt>>

DoPropagate ==
    /\ Called
    /\ la' = propagate(la)
    /\ op' = [NoOp EXCEPT !.name = "propagate"]
    /\ UNCHANGED <<pc, search_trail, search_l, rt>>

DoPush(x) ==
    /\ Called
    /\ la' = push(la, x)
    /\ op' = [NoOp EXCEPT !.name = "push", !.a = x, !.pre = value(la, x)]
    /\ UNCHANGED <<pc, search_trail, search_l, rt>>

DoPop ==
    /\ Called
    /\ scope_lvl(la) > 0
    /\ la' \in pop(la)
    /\ op' = [NoOp EXCEPT !.name = "pop"]
    /\ UNCHANGED <<pc, search_trail, search_l, rt>>

DoChoose ==
    /\ Called
    /\ \E r \in choose(la) :
          /\ la' = r.st
          /\ op' = [NoOp EXCEPT !.name = "choose", !.ret = r.l]
    /\ UNCHANGED <<pc, search_trail, search_l, rt>>

DoTryAddBinary(u, v) ==
    /\ Called
    /\ var(u) # var(v)
    /\ la' = try_add_binary(la, u, v)
    /\ op' = [NoOp EXCEPT !.name = "try_add_binary", !.a = u, !.b = v]
    /\ UNCHANGED <<pc, search_trail, search_l, rt>>

Next ==
    \/ \E x \in Lits : DoAssign(x)
    \/ DoPropagate
    \/ \E x \in Lits : DoPush(x)
    \/ DoPop
    \/ DoChoose

Spec == Init /\ [][Next]_vars

\* the binary table of a fresh instance: literals get their values from
\* push(), clauses are added by try_add_binary and undone by pop()
InitBinary ==
    /\ \E s \in TableSolvers : la = init(s)
    /\ pc = "ready"
    /\ search_trail = <<>>
    /\ search_l = null_literal
    /\ op = NoOp
    /\ steps = 0
    /\ rt = NoRt

NextBinary ==
    \/ \E u, v \in Lits : DoTryAddBinary(u, v)
    \/ \E x \in Lits : DoPush(x)
    \/ DoPop

SpecBinary == InitBinary /\ [][NextBinary]_vars

----------------------------------------------------------------------------
(* SpecSearch: check() on a freshly built instance.  One action is the     *)
(* call of choose() at the head of the loop of search(), the others are    *)
(* the branches search() takes on what choose() returned.                  *)

InitSearch ==
    /\ \E s \in Solvers : la = init(s)
    /\ pc = "ready"
    /\ search_trail = <<>>
    /\ search_l = null_literal
    /\ op = NoOp
    /\ steps = 0
    /\ rt = NoRt

\* check() enters search() with an empty trail of decisions
Check ==
    /\ pc = "ready"
    /\ pc' = "search"
    /\ search_trail' = <<>>
    /\ UNCHANGED <<la, search_l, op, steps, rt>>

\* s.checkpoint(); literal l = choose();
SearchChoose ==
    /\ pc = "search"
    /\ \E r \in choose(la) :
          /\ la' = r.st
          /\ search_l' = r.l
          /\ pc' = IF r.st.aborted THEN "aborted" ELSE "chosen"
    /\ UNCHANGED <<search_trail, op, steps, rt>>

\* if (inconsistent()) { if (!backtrack(trail)) return l_false; continue; }
SearchBacktrack ==
    /\ pc = "chosen"
    /\ inconsistent(la)
    /\ \E r \in backtrack(la, search_trail) :
          /\ r.ret
          /\ la' = r.st
          /\ search_trail' = r.trail
          /\ pc' = IF r.st.aborted THEN "aborted" ELSE "search"
    /\ UNCHANGED <<search_l, op, steps, rt>>

SearchUnsat ==
    /\ pc = "chosen"
    /\ inconsistent(la)
    /\ \E r \in backtrack(la, search_trail) :
          /\ ~r.ret
          /\ pc' = "l_false"
    /\ UNCHANGED <<la, search_trail, search_l, op, steps, rt>>

\* if (l == null_literal) return l_true;
SearchSat ==
    /\ pc = "chosen"
    /\ ~inconsistent(la)
    /\ search_l = null_literal
    /\ pc' = "l_true"
    /\ UNCHANGED <<la, search_trail, search_l, op, steps, rt>>

\* push(l); trail.push_back(l);
SearchPush ==
    /\ pc = "chosen"
    /\ ~inconsistent(la)
    /\ search_l # null_literal
    /\ la' = push(la, search_l)
    /\ search_trail' = Append(search_trail, search_l)
    /\ pc' = "search"
    /\ UNCHANGED <<search_l, op, steps, rt>>

NextSearch ==
    \/ Check
    \/ SearchChoose
    \/ SearchBacktrack
    \/ SearchUnsat
    \/ SearchSat
    \/ SearchPush

SpecSearch == InitSearch /\ [][NextSearch]_vars

\* check() on an instance with at most one unit, and run on: every call the
\* loop of search() makes returns, so a step that can be taken is taken
InitSearchFair ==
    /\ \E u \in UnitTrails(MaxPlainUnits), b \in BinClauseSeqs({FALSE}),
          c \in SeqsUpTo(TernaryClauses, MaxClauses) : la = init(solver(u, b, c))
    /\ pc = "ready"
    /\ search_trail = <<>>
    /\ search_l = null_literal
    /\ op = NoOp
    /\ steps = 0
    /\ rt = NoRt

\* weak fairness of the body of the loop of search(), with the action and
\* its enabling condition written out: a pass through the loop can be taken
\* exactly while search() has not returned, and every pass changes pc
SearchRuns ==
    \/ []<>(pc \notin {"search", "chosen"})
    \/ []<><<pc \in {"search", "chosen"} /\ pc' # pc>>_vars

SpecSearchFair ==
    InitSearchFair /\ [][NextSearch]_vars /\ WF_vars(Check) /\ SearchRuns

\* check() on an instance built from a formula of binary clauses, or of
\* one binary clause at most and one unit at most
InitFormula ==
    /\ \E s \in FormulaSolvers \cup ContradictionSolvers \cup PlainSolvers : la = init(s)
    /\ pc = "ready"
    /\ search_trail = <<>>
    /\ search_l = null_literal
    /\ op = NoOp
    /\ steps = 0
    /\ rt = NoRt

SpecFormula == InitFormula /\ [][NextSearch]_vars

----------------------------------------------------------------------------
(* SpecChoose1: the rounds of the loop of choose(), one call of choose1    *)
(* at a time, on an instance built from a formula; push() opens scopes.    *)

\* op.ret is the literal handed back through l, op.b is 1 when choose1
\* returned true and 0 when it returned false
DoChoose1 ==
    /\ Called
    /\ \E r \in choose1(la) :
          /\ la' = r.st
          /\ op' = [NoOp EXCEPT !.name = "choose1", !.ret = r.l,
                                !.b = IF r.ret THEN 1 ELSE 0]
    /\ UNCHANGED <<pc, search_trail, search_l, rt>>

NextChoose1 ==
    \/ DoChoose1
    \/ \E x \in Lits : DoPush(x)

SpecChoose1 == InitFormula /\ [][NextChoose1]_vars

----------------------------------------------------------------------------
(* SpecProbe: choose1 taken one round of its loop at a time, with its      *)
(* locals and the scores of the candidates scored so far held in rt        *)

NoProbe == [kind |-> "none"]

\* choose1 up to the head of its loop
ProbeEnter ==
    /\ pc \in {"ready", "returned"}
    /\ Called
    /\ \E ps \in pre_select(la) :
          /\ la' = ps.st
          /\ pc' = IF ps.st.aborted \/ ps.P = <<>> THEN "returned" ELSE "probe"
          /\ rt' = [phase |-> "probe", P |-> ps.P, i |-> 1, h |-> 0, count |-> 1,
                    l |-> null_literal, scores |-> <<>>, last |-> NoProbe]
    /\ op' = [NoOp EXCEPT !.name = "choose1"]
    /\ UNCHANGED <<search_trail, search_l>>

\* one round of the loop; after the last one comes the return
ProbeStep ==
    /\ pc = "probe"
    /\ \E r \in choose1_step(la, rt.P, rt.i, rt.h, rt.count, rt.l) :
          /\ la' = r.st
          /\ rt' = [rt EXCEPT !.i = @ + 1, !.h = r.h, !.count = r.count, !.l = r.l,
                              !.scores = IF r.kind = "scored"
                                         THEN Append(@, mix_diff(r.diff1, r.diff2))
                                         ELSE @,
                              !.last = r]
          /\ pc' = IF r.stop \/ rt.i = Len(rt.P) THEN "returned" ELSE "probe"
          /\ op' = [NoOp EXCEPT !.name = "probe", !.a = rt.P[rt.i], !.ret = r.l,
                                !.b = IF r.stop THEN 1 ELSE 0]
    /\ UNCHANGED <<search_trail, search_l, steps>>

ProbePush ==
    /\ pc = "ready"
    /\ \E x \in Lits : DoPush(x)

NextProbe ==
    \/ ProbeEnter
    \/ ProbeStep
    \/ ProbePush

SpecProbe == InitFormula /\ [][NextProbe]_vars

----------------------------------------------------------------------------
(* SpecRoundTrip: n pushes followed by n pops on a freshly built instance  *)

\* what a round trip is to give back
snapshot(st) ==
    [m_assignment |-> st.m_assignment,
     m_binary     |-> st.m_binary,
     free         |-> {v \in Vars : value(st, literal(v, FALSE)) = l_undef}]

RtPush(x) ==
    /\ ~la.aborted
    /\ rt.phase \in {"off", "pushing"}
    /\ rt.depth < MaxRoundTrip
    /\ la' = push(la, x)
    /\ rt' = [phase |-> "pushing", depth |-> rt.depth + 1,
              base |-> IF rt.phase = "off" THEN snapshot(la) ELSE rt.base]
    /\ UNCHANGED <<pc, search_trail, search_l, op, steps>>

RtPop ==
    /\ ~la.aborted
    /\ rt.phase \in {"pushing", "popping"}
    /\ rt.depth > 0
    /\ la' \in pop(la)
    /\ rt' = [rt EXCEPT !.depth = @ - 1,
                        !.phase = IF rt.depth = 1 THEN "closed" ELSE "popping"]
    /\ UNCHANGED <<pc, search_trail, search_l, op, steps>>

NextRoundTrip ==
    \/ \E x \in Lits : RtPush(x)
    \/ RtPop

SpecRoundTrip == Init /\ [][NextRoundTrip]_vars

----------------------------------------------------------------------------
(* SpecNest: scopes opened by push() and closed by pop() in any nesting,   *)
(* with try_add_binary called at any depth.  rt.base holds, for every open *)
(* scope, the binary table as it was when the scope was opened.             *)

InitNest ==
    /\ \E s \in TableSolvers : la = init(s)
    /\ pc = "ready"
    /\ search_trail = <<>>
    /\ search_l = null_literal
    /\ op = NoOp
    /\ steps = 0
    /\ rt = [phase |-> "nest", depth |-> 0, base |-> <<>>, adds |-> 0]

NestCalled ==
    /\ ~la.aborted
    /\ steps < MaxNestOps
    /\ steps' = steps + 1
    /\ UNCHANGED <<pc, search_trail, search_l>>

NestPush(x) ==
    /\ NestCalled
    /\ rt.depth < MaxRoundTrip
    /\ la' = push(la, x)
    /\ op' = [NoOp EXCEPT !.name = "push", !.a = x]
    /\ rt' = [rt EXCEPT !.depth = @ + 1, !.base = Append(@, la.m_binary)]

NestAdd(u, v) ==
    /\ NestCalled
    /\ rt.adds < MaxNestAdds
    /\ var(u) # var(v)
    /\ la' = try_add_binary(la, u, v)
    /\ op' = [NoOp EXCEPT !.name = "try_add_binary", !.a = u, !.b = v]
    /\ rt' = [rt EXCEPT !.adds = @ + 1]

NestPop ==
    /\ NestCalled
    /\ rt.depth > 0
    /\ la' \in pop(la)
    /\ op' = [NoOp EXCEPT !.name = "pop"]
    /\ rt' = [rt EXCEPT !.depth = @ - 1, !.base = Front(@)]

NextNest ==
    \/ \E x \in Lits : NestPush(x)
    \/ \E u, v \in Lits : NestAdd(u, v)
    \/ NestPop

SpecNest == InitNest /\ [][NextNest]_vars

----------------------------------------------------------------------------
(* SpecScc: get_scc() on the table of a fresh instance, for every list of *)
(* candidate variables.  Nothing in the class fills m_candidates but      *)
(* select(), from m_freevars; the list is an input here.                  *)

CandidateLists(st) ==
    {[i \in DOMAIN q |-> [m_var |-> q[i], m_rating |-> st.m_rating[q[i]]]] :
        q \in {c \in SeqsUpTo(Vars, NumVars) : IsInjective(c)}}

InitScc ==
    /\ \E s \in FormulaSolvers : \E c \in CandidateLists(init(s)) :
          la = [init(s) EXCEPT !.m_candidates = c]
    /\ pc = "ready"
    /\ search_trail = <<>>
    /\ search_l = null_literal
    /\ op = NoOp
    /\ steps = 0
    /\ rt = NoRt

DoGetScc ==
    /\ Called
    /\ la' = get_scc(la)
    /\ op' = [NoOp EXCEPT !.name = "get_scc"]
    /\ UNCHANGED <<pc, search_trail, search_l, rt>>

SpecScc == InitScc /\ [][DoGetScc]_vars

----------------------------------------------------------------------------
(* SpecStamp: set_bstamps, inc_bstamp and init_scc called on an instance   *)
(* that earlier calls of the three have used: m_bstamp_id is where they    *)
(* left it, up to the last value before it wraps, and every stamp is 0 or  *)
(* one of the ids a call wrote, the first id or the current one.           *)

StampIds == {0, UINT_MAX - 1, UINT_MAX}

StampTables(id) ==
    IF id = 0 THEN {[x \in Lits |-> 0]} ELSE [Lits -> {0, 1, id}]

StampCandidates(st) ==
    {c \in CandidateLists(st) : Len(c) <= 1}

InitStamp ==
    /\ \E s \in TableSolvers, id \in StampIds :
          \E t \in StampTables(id), c \in StampCandidates(init(s)) :
             la = [init(s) EXCEPT !.m_bstamp_id = id, !.m_bstamp = t, !.m_candidates = c]
    /\ pc = "ready"
    /\ search_trail = <<>>
    /\ search_l = null_literal
    /\ op = NoOp
    /\ steps = 0
    /\ rt = NoRt

\* op.pre keeps the id the call found
DoSetBstamps(x) ==
    /\ Called
    /\ la' = set_bstamps(la, x)
    /\ op' = [NoOp EXCEPT !.name = "set_bstamps", !.a = x, !.pre = la.m_bstamp_id]
    /\ UNCHANGED <<pc, search_trail, search_l, rt>>

DoIncBstamp ==
    /\ Called
    /\ la' = inc_bstamp(la)
    /\ op' = [NoOp EXCEPT !.name = "inc_bstamp", !.pre = la.m_bstamp_id]
    /\ UNCHANGED <<pc, search_trail, search_l, rt>>

DoInitScc ==
    /\ Called
    /\ la' = init_scc(la)
    /\ op' = [NoOp EXCEPT !.name = "init_scc", !.pre = la.m_bstamp_id]
    /\ UNCHANGED <<pc, search_trail, search_l, rt>>

NextStamp ==
    \/ \E x \in Lits : DoSetBstamps(x)
    \/ DoIncBstamp
    \/ DoInitScc

SpecStamp == InitStamp /\ [][NextStamp]_vars

----------------------------------------------------------------------------
(* Clause sets and their models *)

Models == [Vars -> BOOLEAN]
\* literal x is true in the total assignment a
holds(a, x) == a[var(x)] # sign(x)
\* the clauses stored in a binary table: ~x \/ w for every w in the list of x
satisfies_table(a, binary) ==
    \A x \in Lits : \A i \in DOMAIN binary[x] : holds(a, neg(x)) \/ holds(a, binary[x][i])
\* the clause set a solver hands over: its units, its non-learned binary
\* clauses and its non-binary clauses
satisfies_solver(a, s) ==
    /\ \A i \in DOMAIN s.m_trail : holds(a, s.m_trail[i])
    /\ \A x \in Lits : \A i \in DOMAIN s.m_watches[x] :
          s.m_watches[x][i].learned \/ holds(a, neg(x)) \/ holds(a, s.m_watches[x][i].lit)
    /\ \A i \in DOMAIN s.m_clauses : \E j \in DOMAIN s.m_clauses[i] : holds(a, s.m_clauses[i][j])

is_sat(st) ==
    /\ \A k \in DOMAIN st.m_freevars :
          LET v == st.m_freevars[k]
          IN  /\ \A i \in DOMAIN st.m_binary[literal(v, FALSE)] :
                    is_true(st, st.m_binary[literal(v, FALSE)][i])
              /\ \A i \in DOMAIN st.m_binary[literal(v, TRUE)] :
                    is_true(st, st.m_binary[literal(v, TRUE)][i])
    /\ \A i \in DOMAIN st.m_clauses :
          is_true(st, st.m_clauses[i][1]) \/ is_true(st, st.m_clauses[i][2])

----------------------------------------------------------------------------
(* Pre-selection: ratings of the free variables and the candidate list.    *)
(* m_H[i] of the code is m_H[i + 1] here, m_candidates[i] likewise.        *)

m_alpha == flt_round(7, -1)
m_max_score == flt_of(20)
m_max_hlevel == 50
m_min_cutoff == 30
m_level_cand == 600
null_bool_var == UINT_MAX \div 2

\* rows of zeros are added until m_H[level] is there
ensure_H(st, level) ==
    LET row == [x \in 0 .. (2 * st.s.num_vars - 1) |-> Zero]
        more == IF Len(st.m_H) > level THEN 0 ELSE level + 1 - Len(st.m_H)
    IN  [st EXCEPT !.m_H = @ \o [k \in 1 .. more |-> row]]

\* is_free(l) is !is_unit(l), and is_unit answers false
is_free(st, x) == TRUE

\* sum = 0.1 + afactor*sum + sqfactor*tsum with tsum = 0, cut at m_max_score
l_score(st, x, h, factor, sqfactor, afactor) ==
    LET lits == st.m_binary[x]
        sum == fold(LAMBDA acc, i : IF is_free(st, lits[i]) THEN flt_add(acc, h[lits[i]]) ELSE acc,
                    Zero, 1, Len(lits))
        tsum == Zero
        score == flt_add(flt_add(flt_div(flt_of(1), flt_of(10)), flt_mul(afactor, sum)),
                         flt_mul(sqfactor, tsum))
    IN  std_min(m_max_score, score)

\* the scores and the rating of the i-th free variable
h_scores_var(st, h, hp, factor, i) ==
    LET x == literal(st.m_freevars[i], FALSE)
        sqfactor == flt_mul(factor, factor)
        afactor == flt_mul(factor, m_alpha)
        pos == l_score(st, x, h, factor, sqfactor, afactor)
        ng == l_score(st, neg(x), h, factor, sqfactor, afactor)
    IN  [st EXCEPT !.m_H[hp + 1][x] = pos,
                   !.m_H[hp + 1][neg(x)] = ng,
                   !.m_rating[var(x)] = flt_mul(pos, ng)]

\* h and hp are the places of two different vectors of m_H
h_scores(st, h, hp) ==
    LET hv == st.m_H[h + 1]
        sum == fold(LAMBDA acc, i :
                        LET x == literal(st.m_freevars[i], FALSE)
                        IN  flt_add(acc, flt_add(hv[x], hv[neg(x)])),
                    Zero, 1, Len(st.m_freevars))
    IN  with(flt_div(flt_of(2 * Len(st.m_freevars)), sum), LAMBDA factor :
            fold(LAMBDA s0, i : h_scores_var(s0, hv, hp, factor, i), st, 1, Len(st.m_freevars)))

init_pre_selection(st, level) ==
    LET max_level == m_max_hlevel
        step(h, hp, s0) == with(s0, LAMBDA s1 : h_scores(s1, h, hp))
        pass(s0) == step(2, 0, step(1, 2, s0))
    IN  IF level <= 1
        THEN pass(pass(step(0, 1, ensure_H(st, 2))))
        ELSE IF level < max_level
             THEN step(level - 1, level, ensure_H(st, level))
             ELSE step(max_level - 1, max_level, ensure_H(st, max_level))

init_candidates(st, level, newbies) ==
    fold(LAMBDA r, i :
             LET x == st.m_freevars[i]
             IN  [st  |-> [r.st EXCEPT !.m_candidates =
                               Append(@, [m_var |-> x, m_rating |-> st.m_rating[x]])],
                  sum |-> flt_add(r.sum, st.m_rating[x])],
         [st |-> [st EXCEPT !.m_candidates = <<>>], sum |-> Zero], 1, Len(st.m_freevars))

RECURSIVE sift_up_loop(_, _, _, _)
sift_up_loop(cs0, c, i, k) ==
    with(cs0, LAMBDA cs :
        IF k >= Len(cs) THEN [cs |-> cs, i |-> i]
        ELSE LET k2 == IF k + 1 < Len(cs) /\ flt_lt(cs[k + 1].m_rating, cs[k + 2].m_rating)
                       THEN k + 1 ELSE k
             IN  IF flt_le(c.m_rating, cs[k2 + 1].m_rating) THEN [cs |-> cs, i |-> i]
                 ELSE sift_up_loop([cs EXCEPT ![i + 1] = cs[k2 + 1]], c, k2, 2 * k2 + 1))

\* sift_up on the list cs of candidates
sift_up(cs, j) ==
    with(sift_up_loop(cs, cs[j + 1], j, 2 * j + 1), LAMBDA r :
        IF r.i > j THEN [r.cs EXCEPT ![r.i + 1] = cs[j + 1]] ELSE r.cs)

\* one pass of the inner loop of the mean filter: a candidate below the mean
\* is overwritten by the last one, which is looked at next
select_sweep_step(r, mean) ==
    IF r.i >= Len(r.cs) THEN r
    ELSE IF flt_le(mean, r.cs[r.i + 1].m_rating)
         THEN [r EXCEPT !.sum = flt_add(@, r.cs[r.i + 1].m_rating), !.i = @ + 1]
         ELSE [r EXCEPT !.cs = Front([r.cs EXCEPT ![r.i + 1] = Last(r.cs)]), !.progress = TRUE]

\* the inner loop: every pass moves on or drops a candidate, so it makes as
\* many passes as there are candidates
select_sweep(cs, mean) ==
    fold(LAMBDA r, t : select_sweep_step(r, mean),
         [cs |-> cs, sum |-> Zero, progress |-> FALSE, i |-> 0], 1, Len(cs))

\* step 1: cut the list to fewer than 2*max_num_cand
RECURSIVE select_filter(_, _)
select_filter(r0, max_num_cand) ==
    with(r0, LAMBDA r :
        IF r.progress /\ Len(r.cs) >= max_num_cand * 2
        THEN with(flt_div(r.sum, flt_add(flt_of(Len(r.cs)), flt_div(flt_of(1), flt_of(10000)))),
                  LAMBDA mean : select_filter(select_sweep(r.cs, mean), max_num_cand))
        ELSE r.cs)

\* step 2: a heap takes the list down to max_num_cand
select_cut(cs, max_num_cand) ==
    IF Len(cs) > max_num_cand
    THEN LET j == Len(cs) \div 2
             heap == fold(LAMBDA c0, t : sift_up(c0, j - t), cs, 1, j)
         IN  fold(LAMBDA c0, t :
                      with(Front([c0 EXCEPT ![1] = Last(c0)]), LAMBDA c1 :
                          IF Len(c1) = max_num_cand THEN c1 ELSE sift_up(c1, 0)),
                  heap, 1, Len(cs) - max_num_cand)
    ELSE cs

\* select(level): the outcomes of a call.  With no candidate and is_sat()
\* false the first loop never ends and the call has no outcome.  A call
\* that gets past the loop flows off the end of a function that returns
\* bool_var: it faults or hands back whatever the register holds.
select_rest(st, sum, level) ==
    LET n == IF level = 0 THEN Len(st.m_freevars) ELSE m_level_cand \div level
        max_num_cand == IF m_min_cutoff < n THEN n ELSE m_min_cutoff
    IN  with(select_filter([cs |-> st.m_candidates, sum |-> sum, progress |-> TRUE],
                           max_num_cand),
             LAMBDA c1 :
                 with([st EXCEPT !.m_candidates = select_cut(c1, max_num_cand)],
                      LAMBDA s2 : {[st |-> s2, ret |-> g] : g \in GarbageVals}
                                  \cup {[st |-> abort(s2), ret |-> null_bool_var]}))

select(st, level) ==
    with(init_candidates(init_pre_selection(st, level), level, FALSE), LAMBDA r :
        IF r.st.m_candidates = <<>>
        THEN IF is_sat(r.st) THEN {[st |-> r.st, ret |-> null_bool_var]} ELSE {}
        ELSE select_rest(r.st, r.sum, level))

----------------------------------------------------------------------------
(* SpecClauses: the call sequences of Spec on an instance built from a     *)
(* solver that hands over units and a non-binary clause.                   *)

ClauseSolvers ==
    {solver(u, <<>>, c) :
        u \in UnitTrails(MaxUnits), c \in SeqsUpTo(TernaryClauses, MaxClauses)}

InitClauses ==
    /\ \E s \in ClauseSolvers : la = init(s)
    /\ pc = "ready"
    /\ search_trail = <<>>
    /\ search_l = null_literal
    /\ op = NoOp
    /\ steps = 0
    /\ rt = NoRt

NextClauses ==
    \/ \E x \in Lits : DoAssign(x)
    \/ DoPropagate
    \/ \E x \in Lits : DoPush(x)
    \/ DoPop

SpecClauses == InitClauses /\ [][NextClauses]_vars

----------------------------------------------------------------------------
(* SpecSelect: select(level) called again and again on a fresh instance.   *)
(* Nothing in the class fills m_freevars; the list is an input here.       *)

\* the levels select() is called with: those of the first branch of
\* init_pre_selection and the next one, the first level whose share of
\* m_level_cand is down to m_min_cutoff and the one before, and m_max_hlevel
SelectLevels ==
    (0 .. MaxLevel) \cup {m_level_cand \div m_min_cutoff - 1, m_level_cand \div m_min_cutoff,
                          m_max_hlevel}

\* variables without a value, each listed once, in the order of insertion
FreeVarLists(st) ==
    {q \in SeqsUpTo(Vars, NumVars) :
        IsInjective(q) /\ \A i \in DOMAIN q : value(st, literal(q[i], FALSE)) = l_undef}

\* a solver with ManyVars variables and the binary clauses bins
many_solver(bins) ==
    [m_watches |-> mk_bin_clauses([x \in 0 .. (2 * ManyVars - 1) |-> <<>>], bins, 1),
     m_clauses |-> <<>>,
     m_trail   |-> <<>>,
     num_vars  |-> ManyVars]

\* no clause, or the clauses (x0 | x1), (x2 | x3), ... over the first
\* m_min_cutoff variables
ManyClauses ==
    {<<>>,
     [i \in 1 .. (m_min_cutoff \div 2) |->
         [l1 |-> literal(2 * i - 2, FALSE), l2 |-> literal(2 * i - 1, FALSE), learned |-> FALSE]]}

\* the first n variables
first_vars(n) == [i \in 1 .. n |-> i - 1]

InitSelect ==
    /\ \/ \E s \in TableSolvers : \E f \in FreeVarLists(init(s)) :
             la = [init(s) EXCEPT !.m_freevars = f]
       \/ \E n \in {m_min_cutoff + 1, ManyVars}, b \in ManyClauses :
             la = [init(many_solver(b)) EXCEPT !.m_freevars = first_vars(n)]
    /\ pc = "ready"
    /\ search_trail = <<>>
    /\ search_l = null_literal
    /\ op = NoOp
    /\ steps = 0
    /\ rt = NoRt

\* what a call that flows off the end of select() hands back is not kept
DoSelect(level) ==
    /\ Called
    /\ steps < MaxSelects
    /\ \E r \in select(la, level) :
          /\ la' = r.st
          /\ op' = [NoOp EXCEPT !.name = "select", !.a = level]
    /\ UNCHANGED <<pc, search_trail, search_l, rt>>

NextSelect == \E level \in SelectLevels : DoSelect(level)

SpecSelect == InitSelect /\ [][NextSelect]_vars

----------------------------------------------------------------------------
(* SpecSweep: one call of select(level), the first loop of it pass by      *)
(* pass.  op.a is the level and op.ret the number of passes made.          *)

SweepSolvers ==
    TableSolvers \cup {solver(<<>>, <<>>, c) : c \in SeqsUpTo(TernaryClauses, MaxClauses)}

InitSweep ==
    /\ \E s \in SweepSolvers : \E f \in FreeVarLists(init(s)) :
          la = [init(s) EXCEPT !.m_freevars = f]
    /\ pc = "ready"
    /\ search_trail = <<>>
    /\ search_l = null_literal
    /\ op = NoOp
    /\ steps = 0
    /\ rt = NoRt

\* select(level) up to the head of the loop
SelectEnter(level) ==
    /\ pc = "ready"
    /\ la' = init_pre_selection(la, level)
    /\ pc' = "sweep"
    /\ op' = [NoOp EXCEPT !.name = "select", !.a = level, !.ret = 0]
    /\ UNCHANGED <<search_trail, search_l, steps, rt>>

\* one pass of the loop: init_candidates, then the break, the return or
\* the next pass; after the break comes the rest of select()
SelectSweep ==
    /\ pc = "sweep"
    /\ op.ret < MaxSweeps
    /\ op' = [op EXCEPT !.ret = @ + 1]
    /\ \E r \in {init_candidates(la, op.a, op.ret > 0)} :
          IF r.st.m_candidates # <<>>
          THEN /\ \E o \in select_rest(r.st, r.sum, op.a) : la' = o.st
               /\ pc' = "returned"
          ELSE /\ la' = r.st
               /\ pc' = IF is_sat(r.st) THEN "returned" ELSE "sweep"
    /\ UNCHANGED <<search_trail, search_l, steps, rt>>

NextSweep ==
    \/ \E level \in SelectLevels : SelectEnter(level)
    \/ SelectSweep

SpecSweep == InitSweep /\ [][NextSweep]_vars

----------------------------------------------------------------------------
(* SpecForest: candidates and ratings from select(), then get_scc() and    *)
(* construct_forest() on them                                              *)

InitForest ==
    /\ \E s \in FormulaSolvers \cup ContradictionSolvers :
          la = [init(s) EXCEPT !.m_freevars = first_vars(NumVars)]
    /\ pc = "ready"
    /\ search_trail = <<>>
    /\ search_l = null_literal
    /\ op = NoOp
    /\ steps = 0
    /\ rt = NoRt

ForestSelect(level) ==
    /\ pc = "ready"
    /\ Called
    /\ \E r \in select(la, level) : la' = r.st
    /\ pc' = "selected"
    /\ op' = [NoOp EXCEPT !.name = "select", !.a = level]
    /\ UNCHANGED <<search_trail, search_l, rt>>

ForestGetScc ==
    /\ pc = "selected"
    /\ Called
    /\ la' = get_scc(la)
    /\ pc' = "scc"
    /\ op' = [NoOp EXCEPT !.name = "get_scc"]
    /\ UNCHANGED <<search_trail, search_l, rt>>

ForestConstruct ==
    /\ pc = "scc"
    /\ Called
    /\ \E r \in construct_forest(la) :
          /\ la' = r.st
          /\ op' = [NoOp EXCEPT !.name = "construct_forest", !.ret = r.offset]
    /\ pc' = "forest"
    /\ UNCHANGED <<search_trail, search_l, rt>>

NextForest ==
    \/ \E level \in 0 .. MaxLevel : ForestSelect(level)
    \/ ForestGetScc
    \/ ForestConstruct

SpecForest == InitForest /\ [][NextForest]_vars

----------------------------------------------------------------------------
(* local_search: the stack of unsatisfied constraints.  In SpecLocalSearch *)
(* the variable la holds the local_search object, and rt.marked the        *)
(* constraints marked unsat and not since marked sat.                      *)

Constraints == 0 .. (NumConstraints - 1)

\* void unsat(int constraint_id)
unsat(st, constraint_id) ==
    [st EXCEPT !.m_unsat_stack = Append(@, constraint_id)]

\* void sat(int c): swap the deleted one with the last one and pop.  back()
\* and pop_back() on an empty stack, and a write at an index that is not
\* below the size of the stack, are outside the vector: the process faults
\* or the stack is left as it is.
sat(st, c) ==
    LET index == st.m_index_in_unsat_stack[c]
    IN  IF st.m_unsat_stack = <<>> THEN {abort(st), st}
        ELSE LET last_unsat_constraint == Last(st.m_unsat_stack)
                 s1 == [st EXCEPT !.m_index_in_unsat_stack[last_unsat_constraint] = index]
             IN  IF index >= Len(st.m_unsat_stack)
                 THEN {abort(st), [s1 EXCEPT !.m_unsat_stack = Front(@)]}
                 ELSE {[s1 EXCEPT !.m_unsat_stack =
                                      Front([@ EXCEPT ![index + 1] = last_unsat_constraint])]}

\* the header holds no write to m_index_in_unsat_stack but the one in
\* sat(): its contents at the first call are an input
InitLocalSearch ==
    /\ \E f \in [Constraints -> Constraints] :
          la = [m_unsat_stack |-> <<>>, m_index_in_unsat_stack |-> f, aborted |-> FALSE]
    /\ pc = "ready"
    /\ search_trail = <<>>
    /\ search_l = null_literal
    /\ op = NoOp
    /\ steps = 0
    /\ rt = [phase |-> "local_search", marked |-> {}]

LsUnsat(c) ==
    /\ Called
    /\ c \notin rt.marked
    /\ la' = unsat(la, c)
    /\ rt' = [rt EXCEPT !.marked = @ \cup {c}]
    /\ op' = [NoOp EXCEPT !.name = "unsat", !.a = c]
    /\ UNCHANGED <<pc, search_trail, search_l>>

LsSat(c) ==
    /\ Called
    /\ c \in rt.marked
    /\ la' \in sat(la, c)
    /\ rt' = [rt EXCEPT !.marked = @ \ {c}]
    /\ op' = [NoOp EXCEPT !.name = "sat", !.a = c]
    /\ UNCHANGED <<pc, search_trail, search_l>>

NextLocalSearch ==
    \/ \E c \in Constraints : LsUnsat(c)
    \/ \E c \in Constraints : LsSat(c)

SpecLocalSearch == InitLocalSearch /\ [][NextLocalSearch]_vars

----------------------------------------------------------------------------
(* cancel_eh<T>: handlers that forward a cancel request to a target object. *)
(* In SpecCancel the variable la holds the handlers (eh) and, for the       *)
(* target m_obj they share, the calls of inc_cancel and dec_cancel each     *)
(* handler has made on it.                                                  *)

Handlers == 1 .. NumHandlers

\* cancel_eh(T & o): m_canceled(false), m_obj(o)
cancel_eh == [m_canceled |-> FALSE, alive |-> TRUE]

\* virtual void operator()(): m_canceled = true; m_obj.inc_cancel();
call_eh(st, h) ==
    [st EXCEPT !.eh[h].m_canceled = TRUE, !.inc_cancel[h] = @ + 1]

\* ~cancel_eh(): if (m_canceled) m_obj.dec_cancel();
destroy_eh(st, h) ==
    IF st.eh[h].m_canceled
    THEN [st EXCEPT !.eh[h].alive = FALSE, !.dec_cancel[h] = @ + 1]
    ELSE [st EXCEPT !.eh[h].alive = FALSE]

InitCancel ==
    /\ la = [eh |-> [h \in Handlers |-> cancel_eh],
             inc_cancel |-> [h \in Handlers |-> 0],
             dec_cancel |-> [h \in Handlers |-> 0]]
    /\ pc = "ready"
    /\ search_trail = <<>>
    /\ search_l = null_literal
    /\ op = NoOp
    /\ steps = 0
    /\ rt = NoRt

EhCall(h) ==
    /\ la.eh[h].alive
    /\ la.inc_cancel[h] < MaxCancels
    /\ la' = call_eh(la, h)
    /\ op' = [NoOp EXCEPT !.name = "operator()", !.a = h]
    /\ UNCHANGED <<pc, search_trail, search_l, steps, rt>>

EhDestroy(h) ==
    /\ la.eh[h].alive
    /\ la' = destroy_eh(la, h)
    /\ op' = [NoOp EXCEPT !.name = "~cancel_eh", !.a = h]
    /\ UNCHANGED <<pc, search_trail, search_l, steps, rt>>

NextCancel ==
    \/ \E h \in Handlers : EhCall(h)
    \/ \E h \in Handlers : EhDestroy(h)

SpecCancel == InitCancel /\ [][NextCancel]_vars

----------------------------------------------------------------------------
(* Claims *)

\* C1: whenever check() returns l_true, the assignment held by the instance
\* gives value true to every unit copied in, to a literal of every binary
\* clause of the binary table and to a literal of every non-binary clause
\* of the snapshot.
C1_TrueMeansModel ==
    pc = "l_true" =>
        /\ \A i \in DOMAIN la.m_units : is_true(la, la.m_units[i])
        /\ \A x \in Lits : \A i \in DOMAIN la.m_binary[x] :
              is_true(la, neg(x)) \/ is_true(la, la.m_binary[x][i])
        /\ \A i \in DOMAIN la.m_clauses :
              \E j \in DOMAIN la.m_clauses[i] : is_true(la, la.m_clauses[i][j])

\* C2: whenever check() returns l_false, no total Boolean assignment
\* satisfies the units, the non-learned binary clauses and the non-binary
\* clauses copied in at construction.
C2_FalseMeansUnsat ==
    pc = "l_false" => \A a \in Models : ~satisfies_solver(a, la.s)

\* C3: in every reachable state, for every literal x, value(x) is true iff
\* value(~x) is false, and value(x) is undefined iff value(~x) is undefined.
C3_AssignmentConsistent ==
    \A x \in Lits :
        /\ value(la, x) = l_true <=> value(la, neg(x)) = l_false
        /\ value(la, x) = l_undef <=> value(la, neg(x)) = l_undef

\* C4: after n pushes followed by n pops the assignment of every literal,
\* the binary table and the set of unassigned variables are what they were
\* before the first push.
C4_RoundTrip ==
    (rt.phase = "closed" /\ ~la.aborted) => snapshot(la) = rt.base

\* C5: assign(x) on a literal whose variable is undefined leaves value(x)
\* true and value(~x) false and does not set the inconsistent flag.
C5_AssignUndefined ==
    [][\A x \in Lits :
          (DoAssign(x) /\ value(la, x) = l_undef /\ value(la, neg(x)) = l_undef) =>
              /\ value(la', x) = l_true
              /\ value(la', neg(x)) = l_false
              /\ la'.m_inconsistent = la.m_inconsistent]_vars

\* C6: assign(x) on a literal that has a value changes neither the
\* assignment nor the trail: nothing changes when value(x) is true, only the
\* inconsistent flag becomes set when value(x) is false; and no operation
\* other than pop() changes the value of an assigned literal.
C6_AssignAssigned ==
    [][/\ \A x \in Lits :
            DoAssign(x) =>
                /\ value(la, x) = l_true => la' = la
                /\ value(la, x) = l_false => la' = [la EXCEPT !.m_inconsistent = TRUE]
       /\ ~DoPop =>
            \A x \in Lits : value(la, x) # l_undef => value(la', x) = value(la, x)]_vars

\* reached: assign was called on a literal that was false, and set the flag
C6_Witness ==
    op.name = "assign" /\ op.pre = l_false /\ la.m_inconsistent

\* C7: while the inconsistent flag is set, no operation other than pop()
\* changes the assignment or extends the trail, and only pop() clears the
\* flag.
C7_FlagHalts ==
    [][(la.m_inconsistent /\ op'.name # "pop") =>
          /\ la'.m_assignment = la.m_assignment
          /\ Len(la'.m_trail) <= Len(la.m_trail)
          /\ la'.m_inconsistent]_vars

\* unassigned variables, as select_variables finds them
free_vars(st) == {v \in Vars : value(st, literal(v, FALSE)) = l_undef}

\* C8: a call of choose() that returns with the inconsistent flag clear
\* returns null_literal or a literal whose variable is unassigned, and
\* returns null_literal exactly when no variable is free and is_sat() holds.
C8_ChooseTotal ==
    (pc = "chosen" /\ ~la.m_inconsistent) =>
        /\ search_l # null_literal => value(la, search_l) = l_undef
        /\ search_l = null_literal <=> (free_vars(la) = {} /\ is_sat(la))

\* C9: every binary clause try_add_binary(u, v) inserts and every literal
\* it assigns follows from the binary clauses of the table before the call
\* together with the clause u \/ v.
C9_BinarySound ==
    [][op'.name = "try_add_binary" /\ steps' = steps + 1 =>
          \A a \in Models :
              (satisfies_table(a, la.m_binary) /\ (holds(a, op'.a) \/ holds(a, op'.b))) =>
                  /\ satisfies_table(a, la'.m_binary)
                  /\ \A i \in (Len(la.m_trail) + 1) .. Len(la'.m_trail) :
                        holds(a, la'.m_trail[i])]_vars

\* reached: the first call on a fresh instance inserted a clause besides
\* u \/ v, one it derived by transitive closure
C9_Witness ==
    /\ op.name = "try_add_binary"
    /\ steps = 1
    /\ Len(la.m_binary_trail) >= Len(init(la.s).m_binary_trail) + 2

\* C10: no list of the binary table holds the same literal twice.
C10_NoDuplicateEdges ==
    \A x \in Lits : IsInjective(la.m_binary[x])

\* the literals of the candidate variables
candidate_lits(st) ==
    {x \in Lits : \E i \in DOMAIN st.m_candidates : st.m_candidates[i].m_var = var(x)}

\* literals reached from the set R along binary implications among the
\* literals of C
RECURSIVE implied_from(_, _, _)
implied_from(st, C, R) ==
    LET R1 == R \cup {w \in C : \E x \in R : \E i \in DOMAIN st.m_binary[x] :
                                    st.m_binary[x][i] = w}
    IN  IF R1 = R THEN R ELSE implied_from(st, C, R1)

\* C11: after get_scc(), two candidate literals with the same parent (the
\* representative found_scc recorded) imply each other through chains of
\* binary implications among candidate literals.
C11_SccClosure ==
    (op.name = "get_scc" /\ ~la.aborted) =>
        \A a, b \in candidate_lits(la) :
            get_parent(la, a) = get_parent(la, b) =>
                /\ b \in implied_from(la, candidate_lits(la), {a})
                /\ a \in implied_from(la, candidate_lits(la), {b})

\* reached: get_scc() put two different literals in one class
C11_Witness ==
    /\ op.name = "get_scc"
    /\ ~la.aborted
    /\ \E a, b \in candidate_lits(la) : a # b /\ get_parent(la, a) = get_parent(la, b)

\* get_scc() reads m_dfs only inside the vector
SccInBounds == ~la.aborted

\* the non-learned binary clauses of a solver, each the set of its literals
clauses_of(s) ==
    UNION {{{neg(x), s.m_watches[x][i].lit} :
               i \in {j \in DOMAIN s.m_watches[x] : ~s.m_watches[x][j].learned}} :
           x \in Lits}

\* the formula {(x \/ y), (~x \/ y), (~y \/ z)}
is_forced_unit_formula(s, x, y, z) ==
    /\ x # y /\ y # z /\ x # z
    /\ clauses_of(s) = {{literal(x, FALSE), literal(y, FALSE)},
                        {literal(x, TRUE), literal(y, FALSE)},
                        {literal(y, TRUE), literal(z, FALSE)}}

\* C12: on the formula {(x \/ y), (~x \/ y), (~y \/ z)} check() does not
\* return l_false, it returns l_true only with y and z true, and y is at no
\* time a decision of the search.
C12_ForcedUnit ==
    \A x, y, z \in Vars :
        is_forced_unit_formula(la.s, x, y, z) =>
            /\ pc # "l_false"
            /\ pc = "l_true" => /\ value(la, literal(y, FALSE)) = l_true
                                /\ value(la, literal(y, TRUE)) = l_false
                                /\ value(la, literal(z, FALSE)) = l_true
                                /\ value(la, literal(z, TRUE)) = l_false
            /\ \A i \in DOMAIN search_trail : var(search_trail[i]) # y

\* the units handed over contain a literal and its complement
has_contrary_units(s) ==
    \E i, j \in DOMAIN s.m_trail : s.m_trail[i] = neg(s.m_trail[j])

\* C13: when the units copied in at construction contain x and ~x, check()
\* does not return l_true and the search pushes no decision.
C13_ContraryUnits ==
    has_contrary_units(la.s) =>
        /\ pc # "l_true"
        /\ search_trail = <<>>

\* literals reached from the set R along the implications ~p => q of the
\* non-learned binary clauses {p, q} of a solver
RECURSIVE closure_from(_, _)
closure_from(s, R) ==
    LET R1 == R \cup {w \in Lits : \E x \in R : {neg(x), w} \in clauses_of(s)}
    IN  IF R1 = R THEN R ELSE closure_from(s, R1)

\* the binary closure contains a => b, b => a and a => ~a
has_contradictory_class(s, a, b) ==
    /\ a # b
    /\ b \in closure_from(s, {a})
    /\ a \in closure_from(s, {b})
    /\ neg(a) \in closure_from(s, {a})

\* C14: on a formula that has no model and whose binary closure contains
\* a => b, b => a and a => ~a, check() does not return l_true.
C14_ContradictoryClass ==
    pc = "l_true" =>
        ~ /\ \E a, b \in Lits : has_contradictory_class(la.s, a, b)
          /\ \A m \in Models : ~satisfies_solver(m, la.s)

\* C15: the search loop of check() eventually returns l_true or l_false.
C15_SearchTerminates == <>(pc \in {"l_true", "l_false"})

\* the variables on the candidate list
candidate_vars(st) == {st.m_candidates[i].m_var : i \in DOMAIN st.m_candidates}

\* C16: a call of select(level) right after a call of select(level) leaves
\* every rating and the set of candidates as the first call left them.
C16_SelectIdempotent ==
    [][(op.name = "select" /\ op'.name = "select" /\ op'.a = op.a
        /\ steps' = steps + 1 /\ ~la'.aborted) =>
            /\ la'.m_rating = la.m_rating
            /\ candidate_vars(la') = candidate_vars(la)]_vars

\* C17: a call of select(level) that comes back with free variables at
\* hand leaves a candidate list of at least one and at most
\* max(m_min_cutoff, level = 0 ? |freevars| : m_level_cand / level) entries,
\* each a free variable, none listed twice
select_target(st, level) ==
    LET n == IF level = 0 THEN Len(st.m_freevars) ELSE m_level_cand \div level
    IN  IF m_min_cutoff < n THEN n ELSE m_min_cutoff
C17_SelectCandidates ==
    (op.name = "select" /\ ~la.aborted /\ la.m_freevars # <<>>) =>
        /\ Len(la.m_candidates) >= 1
        /\ Len(la.m_candidates) <= select_target(la, op.a)
        /\ \A i \in DOMAIN la.m_candidates :
              \E k \in DOMAIN la.m_freevars : la.m_freevars[k] = la.m_candidates[i].m_var
        /\ \A i, j \in DOMAIN la.m_candidates :
              la.m_candidates[i].m_var = la.m_candidates[j].m_var => i = j

\* membership in a list of the binary table
in_list(q, x) == \E i \in DOMAIN q : q[i] = x

\* C18: a call try_add_binary(u, v) on unassigned literals of two variables
\* ends with u true, or v true, or u \/ v in the table (v in binary[~u] and
\* u in binary[~v]); and when u \/ ~v was in the table before the call, it
\* ends with u true and the table as it was.
C18_TryAddBinaryOutcome ==
    [][(op'.name = "try_add_binary" /\ steps' = steps + 1
        /\ value(la, op'.a) = l_undef /\ value(la, op'.b) = l_undef) =>
           /\ \/ is_true(la', op'.a)
              \/ is_true(la', op'.b)
              \/ /\ in_list(la'.m_binary[neg(op'.a)], op'.b)
                 /\ in_list(la'.m_binary[neg(op'.b)], op'.a)
           /\ in_list(la.m_binary[neg(op'.a)], neg(op'.b)) =>
                 /\ is_true(la', op'.a)
                 /\ la'.m_binary = la.m_binary]_vars

\* C19: when propagate() has returned with the inconsistent flag clear,
\* every literal in the list binary[l] of a true literal l is true.
C19_BinaryClosed ==
    (op.name = "propagate" /\ ~la.aborted /\ ~la.m_inconsistent) =>
        \A x \in Lits : is_true(la, x) =>
            \A i \in DOMAIN la.m_binary[x] : is_true(la, la.m_binary[x][i])

\* the places of clause c whose literal is not false
non_false(st, c) == {j \in DOMAIN c : value(st, c[j]) # l_false}

\* C20: when propagate() has returned with the inconsistent flag clear, no
\* non-binary clause has all its literals false, and a clause with exactly
\* one literal that is not false has this literal true.
C20_ClauseFixpoint ==
    (op.name = "propagate" /\ ~la.aborted /\ ~la.m_inconsistent) =>
        \A i \in DOMAIN la.m_clauses :
            /\ non_false(la, la.m_clauses[i]) # {}
            /\ Cardinality(non_false(la, la.m_clauses[i])) = 1 =>
                  \A j \in non_false(la, la.m_clauses[i]) : is_true(la, la.m_clauses[i][j])

\* C21: the pop() that closes a scope takes out of the binary table the
\* entries added inside this scope and no other: the table is then what it
\* was when the scope was opened, also when an inner scope was closed
\* before.
C21_ScopedBinary ==
    [][(op'.name = "pop" /\ steps' = steps + 1 /\ ~la'.aborted) =>
           la'.m_binary = Last(rt.base)]_vars

\* C22: right after set_bstamps(l) the stamped literals are l and the
\* literals of binary[l], whatever the calls before have stamped and also
\* when the id has wrapped around.
C22_StampsCurrent ==
    op.name = "set_bstamps" =>
        \A x \in Lits :
            is_stamped(la, x) <=> (x = op.a \/ in_list(la.m_binary[op.a], x))

\* reached: set_bstamps found the last id, the id wrapped to 1, and of the
\* stamps the earlier calls wrote one is 0 now and not seen as current
C22_Witness ==
    /\ op.name = "set_bstamps"
    /\ op.pre = UINT_MAX
    /\ la.m_bstamp_id = 1
    /\ la.m_binary[op.a] # <<>>
    /\ \E x \in Lits : la.m_bstamp[x] = 0 /\ ~is_stamped(la, x)

\* C23: every add_binary(l1, l2) a call of try_add_binary makes has
\* l1 # l2 and l2 # ~l1.  add_binary(l1, l2) appends l2 to the list of ~l1
\* and l1 to the list of ~l2: with l2 = ~l1 the list of ~l1 gets ~l1
\* itself, with l1 = l2 it gets the negation of its own literal.
C23_AddBinaryPre ==
    [][(op'.name = "try_add_binary" /\ steps' = steps + 1) =>
           \A x \in Lits :
               \A i \in (Len(la.m_binary[x]) + 1) .. Len(la'.m_binary[x]) :
                   la'.m_binary[x][i] \notin {x, neg(x)}]_vars

\* the candidate list of select(level) after the mean filter
select_filtered(st, level) ==
    with(init_candidates(init_pre_selection(st, level), level, FALSE), LAMBDA r :
        select_filter([cs |-> r.st.m_candidates, sum |-> r.sum, progress |-> TRUE],
                      select_target(st, level)))

\* C24: when the mean filter of select leaves more than target candidates,
\* the heap phase leaves exactly target of them, and none it removed has a
\* rating above the rating of one it kept.
C24_HeapKeepsBest ==
    [][(op'.name = "select" /\ steps' = steps + 1) =>
           with(select_filtered(la, op'.a), LAMBDA before :
               Len(before) > select_target(la, op'.a) =>
                   /\ Len(la'.m_candidates) = select_target(la, op'.a)
                   /\ \A i \in DOMAIN before :
                         before[i].m_var \notin candidate_vars(la') =>
                             \A k \in DOMAIN la'.m_candidates :
                                ~flt_lt(la'.m_candidates[k].m_rating, before[i].m_rating))]_vars

\* C25: a call of select makes at most two passes of its first loop, the
\* second with newbies = true.
C25_SweepsBounded ==
    op.name = "select" => op.ret <= 2

\* C26: a call of choose1 that returns false leaves fewer variables
\* without a value than it found.
C26_RetryAssigns ==
    [][(op'.name = "choose1" /\ steps' = steps + 1 /\ op'.b = 0 /\ ~la'.aborted) =>
           /\ free_vars(la') \subseteq free_vars(la)
           /\ free_vars(la') # free_vars(la)]_vars

\* reached: choose1 has returned false
C26_Witness ==
    op.name = "choose1" /\ op.b = 0 /\ ~la.aborted

\* a round of the loop of choose1 has just been made
probe_made == pc = "probe" /\ rt'.i = rt.i + 1

\* C27: in choose1, when the probe of a candidate lit ends inconsistent and
\* the complement is then assigned without a conflict, the round leaves the
\* complement with value true and lit with value false; when only the probe
\* of the complement ends inconsistent, the round leaves lit with value true
\* and the complement with value false.
C27_FailedProbeForces ==
    [][probe_made =>
          LET lit == rt.P[rt.i]
          IN  /\ rt'.last.kind = "failed1" =>
                    /\ value(la', neg(lit)) = l_true
                    /\ value(la', lit) = l_false
              /\ rt'.last.kind = "failed2" =>
                    /\ value(la', lit) = l_true
                    /\ value(la', neg(lit)) = l_false]_vars


\* C28: the value choose1 reads into diff1 after push(lit), and into diff2
\* after push(~lit), is the number of variables that had no value when the
\* push was made and have one when the value is read.
C28_DiffCountsAssigned ==
    [][(probe_made /\ rt'.last.kind \in {"failed2", "scored"}) =>
          /\ rt'.last.diff1 =
                Cardinality(free_vars(la) \ free_vars(rt'.last.at1))
          /\ rt'.last.diff2 =
                Cardinality(free_vars(rt'.last.pre2) \ free_vars(rt'.last.at2))]_vars


\* C29: in choose1, when the score of a candidate equals the best score so
\* far, the bound handed to the random source is the number of candidates
\* scored so far, this one included, that have that score.
C29_TieBound ==
    [][(probe_made /\ rt'.last.kind = "scored" /\ Last(rt'.scores) = rt.h) =>
          rt.count = Cardinality({j \in DOMAIN rt'.scores : rt'.scores[j] = rt.h})]_vars


\* C30: pushes and pops nest: a call of choose() that returns leaves the
\* scope level it found, and at the head of every round of the loop of
\* search() the scope level is the length of the trail of decisions.
C30_ScopesNest ==
    [][/\ (pc = "search" /\ pc' = "chosen") => scope_lvl(la') = scope_lvl(la)
       /\ pc' = "search" => scope_lvl(la') = Len(search_trail')]_vars

\* the head of the loop after choose() has returned a literal from its
\* probes and search() has pushed it
C30_Witness ==
    /\ pc = "search"
    /\ ~la.aborted
    /\ search_l # null_literal
    /\ Len(search_trail) = 1
    /\ scope_lvl(la) = 1


\* C31: when search() finds the flag set and the trail of decisions is not
\* empty, with last decision d, backtrack lowers the scope level by one,
\* takes d off the trail and leaves ~d with value true and d with value
\* false; search() returns l_false only when the trail is empty.
C31_BacktrackFlips ==
    [][/\ (pc = "chosen" /\ pc' = "search" /\ Len(search_trail') < Len(search_trail)) =>
            LET d == Last(search_trail)
            IN  /\ scope_lvl(la') = scope_lvl(la) - 1
                /\ search_trail' = Front(search_trail)
                /\ value(la', neg(d)) = l_true
                /\ value(la', d) = l_false
       /\ pc' = "l_false" => search_trail = <<>>]_vars


\* the class found_scc made for the representative v
scc_class(st, v) == {t \in candidate_lits(st) : get_parent(st, t) = v}

\* C32: after get_scc(), for every representative v of a class of candidate
\* literals, vcomp(v) is a member of the class and no member of the class
\* has a larger rating than vcomp(v).
C32_VcompBest ==
    (pc = "scc" /\ ~la.aborted) =>
        \A v \in candidate_lits(la) :
            get_parent(la, v) = v =>
                /\ get_vcomp(la, v) \in scc_class(la, v)
                /\ \A t \in scc_class(la, v) :
                      flt_le(get_rating(la, t), get_rating(la, get_vcomp(la, v)))


\* reached: a class of two literals with different ratings whose vcomp is
\* not its representative
C32_Witness ==
    /\ pc = "scc"
    /\ ~la.aborted
    /\ \E v \in candidate_lits(la) :
          /\ get_parent(la, v) = v
          /\ get_vcomp(la, v) # v
          /\ \E t \in scc_class(la, v) : flt_lt(get_rating(la, t), get_rating(la, get_vcomp(la, v)))


\* the candidate literal v and its complement imply each other through
\* binary implications among candidate literals
contradictory(st, v) ==
    /\ neg(v) \in implied_from(st, candidate_lits(st), {v})
    /\ v \in implied_from(st, candidate_lits(st), {neg(v)})

\* C33: when a candidate literal and its complement lie in one strongly
\* connected component of the binary table, get_scc() returns with the
\* inconsistent flag set, and found_scc has met no member t of a class of v
\* with t = ~v (its assertion t != ~v).
C33_ContradictionDetected ==
    (pc = "scc" /\ \E v \in candidate_lits(la) : contradictory(la, v)) =>
        /\ ~la.aborted
        /\ la.m_inconsistent
        /\ \A v \in candidate_lits(la) : get_parent(la, neg(v)) # v


\* the representatives of the classes get_scc() found
scc_roots(st) == {v \in candidate_lits(st) : get_parent(st, v) = v}

\* C34: after get_scc() and construct_forest(), the lookahead table has one
\* entry for every class representative of the candidate literals, the
\* offsets of its n entries are the n even numbers 0, 2, ..., 2(n - 1), and
\* the offset reached at the end is 2 n.
C34_LookaheadTable ==
    [][(pc = "scc" /\ pc' = "forest" /\ ~la'.aborted) =>
          LET n == Len(la'.m_lookahead)
          IN  /\ n = Cardinality(scc_roots(la))
              /\ {la'.m_lookahead[i].m_lit : i \in 1 .. n} =
                     {get_vcomp(la, v) : v \in scc_roots(la)}
              /\ {la'.m_lookahead[i].m_offset : i \in 1 .. n} = {2 * k : k \in 0 .. (n - 1)}
              /\ op'.ret = 2 * n]_vars


\* C35: a call push(lit) on a literal without a value leaves exactly one
\* entry for lit on the trail, and no literal occurs twice on the trail.
C35_TrailOnce ==
    [][(op'.name = "push" /\ steps' = steps + 1 /\ op'.pre = l_undef /\ ~la'.aborted) =>
          /\ Cardinality({i \in DOMAIN la'.m_trail : la'.m_trail[i] = op'.a}) = 1
          /\ IsInjective(la'.m_trail)]_vars


occurrences(q, v) == Cardinality({i \in DOMAIN q : q[i] = v})

\* C37: between operations the binary table is symmetric with equal
\* multiplicities: v occurs in binary[l] as often as ~l occurs in
\* binary[~v].
C37_BinarySymmetric ==
    ~la.aborted =>
        \A l, v \in Lits :
            occurrences(la.m_binary[l], v) = occurrences(la.m_binary[neg(v)], neg(l))


\* C38: pop() reads the queue head from a limit stack that is not empty and
\* sets m_qhead to the value the matching push recorded (the last entry of
\* m_qhead_lim when pop() is called); afterwards m_qhead is at most the size
\* of the trail.
C38_QheadRestored ==
    [][(op'.name = "pop" /\ steps' = steps + 1) =>
          /\ ~la'.aborted
          /\ la'.m_qhead = Last(la.m_qhead_lim)
          /\ la'.m_qhead <= Len(la'.m_trail)]_vars


\* C39: after any sequence of unsat(c), for c not marked, and sat(c), for c
\* marked, the unsat stack holds the marked constraints, each once, and
\* every constraint of the stack is found at the index recorded for it.
C39_UnsatStack ==
    rt.phase = "local_search" =>
        /\ ~la.aborted
        /\ {la.m_unsat_stack[i] : i \in DOMAIN la.m_unsat_stack} = rt.marked
        /\ IsInjective(la.m_unsat_stack)
        /\ \A i \in DOMAIN la.m_unsat_stack :
              la.m_index_in_unsat_stack[la.m_unsat_stack[i]] = i - 1


\* C40: when a cancel_eh handler has been destroyed, the calls of dec_cancel
\* it made on the target are as many as the calls of inc_cancel it made,
\* however often operator() was invoked.
C40_CancelBalanced ==
    \A h \in Handlers :
        ~la.eh[h].alive => la.dec_cancel[h] = la.inc_cancel[h]

============================================================================
